---- MODULE Spec2Model ----
(***************************************************************************)
(* Candidate assembly and selection of the trait-selection engine          *)
(* (compiler/rustc_trait_selection/src/traits/select/candidate_assembly.rs)*)
(*                                                                         *)
(* The module holds one set of variables and several specifications:      *)
(*   SpecDedup   the deduplication loop of                                 *)
(*               candidate_from_obligation_no_cache, one iteration a step  *)
(*   SpecDedupFair  the same loop, which goes on until it is left          *)
(*   SpecSelect  sequences of candidate_from_obligation calls on one cache *)
(*   SpecNoCache candidate_from_obligation_no_cache on one obligation      *)
(*   SpecAssemble assemble_candidates on one obligation                    *)
(***************************************************************************)
EXTENDS Integers, Sequences, FiniteSets, TLC

VARIABLES
    cache,      \* the candidate cache: (param_env, freshened predicate) -> result
    causes,     \* intercrate_ambiguity_causes: whether it is Some, and the set
    bindings,   \* the inference state (infcx): the binding of every type variable
    world,      \* what the compiler (tcx) answers about every obligation, by cache key
    ret,        \* the last selection call: its obligation, result and log
    dedup       \* the state of the deduplication loop (lines 181-206)

vars == <<cache, causes, bindings, world, ret, dedup>>

(***************************************************************************)
(* Bounds of the model.                                                    *)
(***************************************************************************)
\* largest number of evaluated candidates handed to the deduplication loop
MaxCands == 3

(***************************************************************************)
(* Types, predicates and obligations.                                      *)
(*                                                                         *)
(* A type is its kind (ty.kind()); the compound kinds carry no arguments.  *)
(* "Int" stands for the primitive kinds no assembler tells apart (Bool,    *)
(* Char, Int, Uint, Float, Str, RawPtr, Ref, Never, GeneratorWitness).     *)
(* "Dynamic" is a trait object of kind ty::Dyn, "DynStar" one of kind      *)
(* ty::DynStar.  TyVar1 and TyVar2 are ty::Infer(TyVar) variables, IntVar  *)
(* and FloatVar the integer and float inference variables.                 *)
(***************************************************************************)
TyVars == {"TyVar1", "TyVar2"}

NumVars == {"IntVar", "FloatVar"}

Unresolved == "Unresolved"

is_ty_var(ty) == ty \in TyVars

\* a predicate: Binder<TraitPredicate>; arg is the type argument
\* substs.type_at(1) of the trait reference
Predicate(trait, self_ty, arg, polarity, is_const) ==
    [ trait    |-> trait,
      self_ty  |-> self_ty,
      arg      |-> arg,
      polarity |-> polarity,
      is_const |-> is_const ]

\* an obligation, the head of a TraitObligationStack
Obligation(param_env, predicate, recursion_depth) ==
    [ param_env       |-> param_env,
      predicate       |-> predicate,
      recursion_depth |-> recursion_depth ]

\* infcx is the inference state: the binding of every type variable
shallow_resolve(infcx, ty) ==
    IF ty \in TyVars /\ infcx[ty] # Unresolved THEN infcx[ty] ELSE ty

\* InferCtxt::resolve_vars_if_possible, line 243
resolve_vars_if_possible(infcx, predicate) ==
    [predicate EXCEPT !.self_ty = shallow_resolve(infcx, predicate.self_ty),
                      !.arg     = shallow_resolve(infcx, predicate.arg)]

\* InferCtxt::freshen, line 44: known bindings are resolved, and every
\* variable left is replaced by a placeholder numbered by first occurrence
fresh_of(ty, n) ==
    IF ty \in TyVars THEN (IF n = 0 THEN "FreshTy0" ELSE "FreshTy1")
    ELSE IF ty = "IntVar" THEN (IF n = 0 THEN "FreshIntTy0" ELSE "FreshIntTy1")
    ELSE IF ty = "FloatVar" THEN (IF n = 0 THEN "FreshFloatTy0" ELSE "FreshFloatTy1")
    ELSE ty

freshen(infcx, predicate) ==
    LET r == resolve_vars_if_possible(infcx, predicate)
        s == r.self_ty
        a == r.arg
    IN  [r EXCEPT !.self_ty = fresh_of(s, 0),
                  !.arg     = IF a = s THEN fresh_of(s, 0)
                              ELSE IF s \in TyVars \cup NumVars THEN fresh_of(a, 1)
                              ELSE fresh_of(a, 0)]

\* TypeVisitable::references_error, has_non_region_infer, has_non_region_param
references_error(predicate) ==
    predicate.self_ty = "Error" \/ predicate.arg = "Error"

ty_has_non_region_infer(ty) == ty \in TyVars \cup NumVars

has_non_region_infer(predicate) ==
    ty_has_non_region_infer(predicate.self_ty) \/ ty_has_non_region_infer(predicate.arg)

has_non_region_param(predicate) ==
    predicate.self_ty = "Param" \/ predicate.arg = "Param"

(***************************************************************************)
(* Candidates (SelectionCandidate): the variant, with its index argument   *)
(* (impl, bound or supertrait index) and its flag (has_nested, is_const,   *)
(* constness).                                                             *)
(***************************************************************************)
Cand(tag, idx, flag) == [tag |-> tag, idx |-> idx, flag |-> flag]

ImplCandidate(impl_def_id) == Cand("ImplCandidate", impl_def_id, FALSE)
ParamCandidate(bound) == Cand("ParamCandidate", bound, FALSE)
BuiltinCandidate(has_nested) == Cand("BuiltinCandidate", 0, has_nested)
ProjectionCandidate(idx, constness) == Cand("ProjectionCandidate", idx, constness)
ObjectCandidate(idx) == Cand("ObjectCandidate", idx, FALSE)
FnPointerCandidate(is_const) == Cand("FnPointerCandidate", 0, is_const)
TraitUpcastingUnsizeCandidate(idx) == Cand("TraitUpcastingUnsizeCandidate", idx, FALSE)
\* ConstDestructCandidate(None) has index 0, ConstDestructCandidate(Some(impl)) the impl
ConstDestructCandidate(impl_def_id) == Cand("ConstDestructCandidate", impl_def_id, FALSE)
AutoImplCandidate == Cand("AutoImplCandidate", 0, FALSE)
BuiltinObjectCandidate == Cand("BuiltinObjectCandidate", 0, FALSE)
ClosureCandidate == Cand("ClosureCandidate", 0, FALSE)
GeneratorCandidate == Cand("GeneratorCandidate", 0, FALSE)
BuiltinUnsizeCandidate == Cand("BuiltinUnsizeCandidate", 0, FALSE)
TraitAliasCandidate == Cand("TraitAliasCandidate", 0, FALSE)
TransmutabilityCandidate == Cand("TransmutabilityCandidate", 0, FALSE)
DiscriminantKindCandidate == Cand("DiscriminantKindCandidate", 0, FALSE)
PointeeCandidate == Cand("PointeeCandidate", 0, FALSE)
NoCandidate == Cand("None", 0, FALSE)

(***************************************************************************)
(* What the surrounding compiler answers about one obligation (tcx, the    *)
(* impl registry, the evaluation and coherence oracles).  facts is the     *)
(* record of these answers for the obligation at hand; NoFacts holds the   *)
(* answers of an obligation about which nothing special is known.          *)
(***************************************************************************)
NoFacts ==
    [ knowable          |-> "Ok",       \* is_knowable: Ok, or the Conflict
      impls             |-> <<>>,       \* for_each_relevant_impl: [id, fast_reject, matches]
      conditions        |-> "None",     \* copy_clone_conditions / sized_conditions
      caller_bounds     |-> <<>>,       \* param_env.caller_bounds(): [trait, wc]
      projection_bounds |-> <<>>,       \* matching definition bounds: [idx, constness]
      closure_kind      |-> "Unknown",  \* infcx.closure_kind: Unknown, Extends, NotExtends
      fn_sig_normal     |-> TRUE,       \* Unsafety::Normal, Abi::Rust, not c_variadic
      no_target_features |-> TRUE,      \* codegen_fn_attrs(def_id).target_features.is_empty()
      is_const_fn       |-> FALSE,
      auto_traits       |-> {},         \* data.auto_traits() of the self type
      principal         |-> "None",     \* data.principal_def_id() of the self type
      principal_object_safe |-> TRUE,
      object_safe_for_dispatch |-> FALSE, \* tcx.features().object_safe_for_dispatch
      supertraits       |-> <<>>,       \* util::supertraits of the principal: [trait, matches]
      target_auto_traits |-> {},        \* data_b.auto_traits()
      target_principal  |-> "None",     \* data_b.principal_def_id()
      deref_output      |-> "None",     \* need_migrate_deref_output_trait_object
      self_has_bound_vars |-> FALSE,    \* self_ty().no_bound_vars() is None
      source_is_struct  |-> TRUE,       \* def_id_a.is_struct()
      same_adt          |-> TRUE,       \* def_id_a == def_id_b
      same_tuple_len    |-> TRUE,       \* tys_a.len() == tys_b.len()
      drop_impl         |-> "None",     \* find_map_relevant_impl(Drop): None, Const, NotConst
      movability        |-> "Movable",  \* of a generator
      ptr_sized_layout  |-> FALSE,      \* size and align equal to those of usize
      ruled_out         |-> {},         \* the candidates filter_impls removes
      reservation_impls |-> {},         \* impls of reservation polarity
      evaluation        |-> [c \in {} |-> <<>>], \* evaluate_candidate: candidate -> [result, nested]
      pref              |-> {} ]        \* candidate_should_be_dropped_in_favor_of

\* an impl of the trait that unifies with the obligation, and a caller bound
\* with the answer of where_clause_may_apply
Impl(id) == [id |-> id, fast_reject |-> FALSE, matches |-> TRUE]

Bound(trait, wc) == [trait |-> trait, wc |-> wc]

\* tcx.is_trait_alias, tcx.trait_is_auto, fn_trait_kind_from_lang_item and
\* the lang items, on the traits of the model
is_trait_alias(trait) == trait = "Alias"

trait_is_auto(trait) == trait \in {"Send", "Unpin"}

is_fn_trait(trait) == trait = "Fn"

is_dynamic(ty) == ty \in {"Dynamic", "DynStar"}

(***************************************************************************)
(* SelectionCandidateSet { vec, ambiguous }, carried through the           *)
(* assemblers together with infcx, the inference state of self.infcx as    *)
(* the assemblers leave it.  ran records, in order, the assemblers that    *)
(* were run and the impls they consulted.                                  *)
(***************************************************************************)
EmptyCandidateSet ==
    [vec |-> <<>>, ambiguous |-> FALSE, ran |-> <<>>, infcx |-> [v \in TyVars |-> Unresolved]]

push(candidates, c) == [candidates EXCEPT !.vec = Append(@, c)]

extend(candidates, cs) == [candidates EXCEPT !.vec = @ \o cs]

set_ambiguous(candidates) == [candidates EXCEPT !.ambiguous = TRUE]

run(candidates, assembler) == [candidates EXCEPT !.ran = Append(@, assembler)]

\* InferCtxt::probe (lines 356, 552, 637, 688): the closure has given
\* `inner`, and the inference state is rolled back to the snapshot taken on
\* entry
probe(snapshot, inner) == [inner EXCEPT !.infcx = snapshot]

\* what unifying the predicate with an impl header, a bound or a supertrait
\* does to the inference state: an unresolved variable in the type argument
\* is bound to the type it is matched against, whether or not the match
\* succeeds in the end
unify_arg(infcx, predicate) ==
    IF predicate.arg \in TyVars /\ infcx[predicate.arg] = Unresolved
    THEN [infcx EXCEPT ![predicate.arg] = "Int"]
    ELSE infcx

unified(c, predicate) == [c EXCEPT !.infcx = unify_arg(@, predicate)]

\* lines 894-908
assemble_candidates_for_trait_alias_never(obligation, candidates) ==
    run(candidates, "trait_alias")

assemble_candidates_for_trait_alias(obligation, candidates) ==
    LET c == run(candidates, "trait_alias")
    IN  IF is_trait_alias(obligation.predicate.trait)
        THEN push(c, TraitAliasCandidate)
        ELSE c

\* lines 520-559: every relevant impl is consulted in order, first by the
\* fast reject and then by match_impl inside a probe
impl_consulted(impl) ==
    IF impl.fast_reject THEN <<"fast_reject_trait_refs">>
    ELSE <<"fast_reject_trait_refs", "match_impl">>

\* lines 553-555, the closure of the probe: match_impl unifies the impl
\* header with the obligation, and the impl is a candidate if that succeeds
match_impl_and_push(impl, obligation, c) ==
    IF impl.matches THEN push(unified(c, obligation.predicate), ImplCandidate(impl.id))
    ELSE unified(c, obligation.predicate)

\* lines 541-557, the closure of for_each_relevant_impl
consult_impl_without_probe(impl, obligation, c) ==
    IF impl.fast_reject THEN [c EXCEPT !.ran = @ \o impl_consulted(impl)]
    ELSE match_impl_and_push(impl, obligation, [c EXCEPT !.ran = @ \o impl_consulted(impl)])

consult_impl(impl, obligation, c) ==
    IF impl.fast_reject THEN [c EXCEPT !.ran = @ \o impl_consulted(impl)]
    ELSE probe(c.infcx, match_impl_and_push(impl, obligation,
                            [c EXCEPT !.ran = @ \o impl_consulted(impl)]))

RECURSIVE consult_impls(_, _, _)
consult_impls(impls, obligation, c) ==
    IF impls = <<>> THEN c
    ELSE consult_impls(Tail(impls), obligation, consult_impl(Head(impls), obligation, c))

assemble_candidates_from_impls_on_errors(facts, obligation, candidates) ==
    consult_impls(facts.impls, obligation, run(candidates, "impls"))

assemble_candidates_from_impls(facts, obligation, candidates) ==
    IF references_error(obligation.predicate)
    THEN run(candidates, "impls")
    ELSE consult_impls(facts.impls, obligation, run(candidates, "impls"))

\* lines 913-929
assemble_builtin_bound_candidates(conditions, candidates) ==
    LET c == run(candidates, "builtin_bound")
    IN  CASE conditions = "WhereEmpty"  -> push(c, BuiltinCandidate(FALSE))
          [] conditions = "WhereNested" -> push(c, BuiltinCandidate(TRUE))
          [] conditions = "None"        -> c
          [] conditions = "Ambiguous"   -> set_ambiguous(c)

\* SelectionContext::copy_clone_conditions and sized_conditions
copy_clone_conditions(facts, obligation) == facts.conditions

sized_conditions(facts, obligation) == facts.conditions

\* the supertraits of the source principal whose trait is the target
\* principal, as upcasting candidates, lines 828-834 (idx counted from 0)
RECURSIVE upcasting_candidates(_, _, _)
upcasting_candidates(supertraits, target_trait_did, idx) ==
    IF supertraits = <<>> THEN <<>>
    ELSE (IF Head(supertraits).trait = target_trait_did
          THEN <<TraitUpcastingUnsizeCandidate(idx)>> ELSE <<>>)
         \o upcasting_candidates(Tail(supertraits), target_trait_did, idx + 1)

\* the arm `Trait+Kx+'a -> Trait+Ky+'b`, lines 779-837
unsize_dyn_to_dyn_with_fallback(facts, c) ==
    IF ~(facts.target_auto_traits \subseteq facts.auto_traits)
    THEN push(c, BuiltinUnsizeCandidate)
    ELSE IF facts.principal = facts.target_principal THEN push(c, BuiltinUnsizeCandidate)
    ELSE IF facts.principal # "None" /\ facts.target_principal # "None"
         THEN IF facts.deref_output # "None" /\ facts.deref_output = facts.target_principal
              THEN c
              ELSE extend(c, upcasting_candidates(facts.supertraits,
                                                  facts.target_principal, 0))
    ELSE c

unsize_dyn_to_dyn(facts, c) ==
    LET auto_traits_compatible == facts.target_auto_traits \subseteq facts.auto_traits
        principal_def_id_a == facts.principal
        principal_def_id_b == facts.target_principal
    IN  IF ~auto_traits_compatible THEN c
        ELSE IF principal_def_id_a = principal_def_id_b
             THEN push(c, BuiltinUnsizeCandidate)
        ELSE IF principal_def_id_a # "None" /\ principal_def_id_b # "None"
             THEN IF facts.deref_output # "None" /\ facts.deref_output = principal_def_id_b
                  THEN c
                  ELSE extend(c, upcasting_candidates(facts.supertraits, principal_def_id_b, 0))
        ELSE c

\* lines 750-873
assemble_candidates_for_unsizing(facts, obligation, candidates) ==
    LET c == run(candidates, "unsizing")
        source == obligation.predicate.self_ty
        target == obligation.predicate.arg
    IN  IF facts.self_has_bound_vars THEN c
        ELSE IF is_dynamic(source) /\ is_dynamic(target) /\ source = target
             THEN unsize_dyn_to_dyn(facts, c)
        ELSE IF target = "Dynamic" THEN push(c, BuiltinUnsizeCandidate)
        ELSE IF is_ty_var(source) \/ is_ty_var(target) THEN set_ambiguous(c)
        ELSE IF source = "Array" /\ target = "Slice" THEN push(c, BuiltinUnsizeCandidate)
        ELSE IF source = "Adt" /\ target = "Adt" /\ facts.source_is_struct
             THEN (IF facts.same_adt THEN push(c, BuiltinUnsizeCandidate) ELSE c)
        ELSE IF source = "Tuple" /\ target = "Tuple"
             THEN (IF facts.same_tuple_len THEN push(c, BuiltinUnsizeCandidate) ELSE c)
        ELSE c

\* lines 876-891
assemble_candidates_for_transmutability_no_return(obligation, candidates) ==
    LET c == run(candidates, "transmutability")
    IN  IF has_non_region_param(obligation.predicate) THEN c
        ELSE push(IF has_non_region_infer(obligation.predicate) THEN set_ambiguous(c) ELSE c,
                  TransmutabilityCandidate)

assemble_candidates_for_transmutability(obligation, candidates) ==
    LET c == run(candidates, "transmutability")
    IN  IF has_non_region_param(obligation.predicate) THEN c
        ELSE IF has_non_region_infer(obligation.predicate) THEN set_ambiguous(c)
        ELSE push(c, TransmutabilityCandidate)

\* lines 931-1003
assemble_const_destruct_candidates(infcx, facts, obligation, candidates) ==
    LET c == run(candidates, "const_destruct")
        self_ty == shallow_resolve(infcx, obligation.predicate.self_ty)
    IN  IF ~obligation.predicate.is_const THEN push(c, ConstDestructCandidate(0))
        ELSE IF self_ty \in {"Opaque", "Dynamic", "DynStar", "Error", "Bound", "Param",
                             "Placeholder", "Projection"}
             THEN c
        ELSE IF self_ty \in {"Int", "IntVar", "FloatVar", "FnDef", "FnPtr", "Foreign", "Array",
                             "Slice", "Closure", "Generator", "Tuple"}
             THEN push(c, ConstDestructCandidate(0))
        ELSE IF self_ty = "Adt"
             THEN CASE facts.drop_impl = "Const"    -> push(c, ConstDestructCandidate(1))
                    [] facts.drop_impl = "NotConst" -> c
                    [] facts.drop_impl = "None"     -> push(c, ConstDestructCandidate(0))
        ELSE set_ambiguous(c)

\* lines 1005-1045
assemble_candidate_for_tuple(infcx, obligation, candidates) ==
    LET c == run(candidates, "tuple")
        self_ty == shallow_resolve(infcx, obligation.predicate.self_ty)
    IN  IF self_ty = "Tuple" THEN push(c, BuiltinCandidate(FALSE))
        ELSE IF is_ty_var(self_ty) THEN set_ambiguous(c)
        ELSE c

\* lines 1047-1071
assemble_candidate_for_ptr_sized_no_return(facts, obligation, candidates) ==
    IF facts.ptr_sized_layout
    THEN push(IF ty_has_non_region_infer(obligation.predicate.self_ty)
              THEN set_ambiguous(run(candidates, "ptr_sized"))
              ELSE run(candidates, "ptr_sized"), BuiltinCandidate(FALSE))
    ELSE IF ty_has_non_region_infer(obligation.predicate.self_ty)
    THEN set_ambiguous(run(candidates, "ptr_sized"))
    ELSE run(candidates, "ptr_sized")

assemble_candidate_for_ptr_sized(facts, obligation, candidates) ==
    LET c == run(candidates, "ptr_sized")
    IN  IF ty_has_non_region_infer(obligation.predicate.self_ty) THEN set_ambiguous(c)
        ELSE IF facts.ptr_sized_layout THEN push(c, BuiltinCandidate(FALSE))
        ELSE c

\* lines 400-425
assemble_generator_candidates(obligation, candidates) ==
    LET c == run(candidates, "generator")
        self_ty == obligation.predicate.self_ty
    IN  IF obligation.predicate.trait # "Generator" THEN c
        ELSE IF self_ty = "Generator" THEN push(c, GeneratorCandidate)
        ELSE IF is_ty_var(self_ty) THEN set_ambiguous(c)
        ELSE c

\* lines 433-467
assemble_closure_candidates(facts, obligation, candidates) ==
    LET c == run(candidates, "closure")
        self_ty == obligation.predicate.self_ty
    IN  IF ~is_fn_trait(obligation.predicate.trait) THEN c
        ELSE IF self_ty = "Closure"
             THEN (IF facts.closure_kind = "NotExtends" THEN c ELSE push(c, ClosureCandidate))
        ELSE IF is_ty_var(self_ty) THEN set_ambiguous(c)
        ELSE c

\* lines 470-517
assemble_fn_pointer_candidates(facts, obligation, candidates) ==
    LET c == run(candidates, "fn_pointer")
        self_ty == obligation.predicate.self_ty
    IN  IF ~is_fn_trait(obligation.predicate.trait) THEN c
        ELSE IF is_ty_var(self_ty) THEN set_ambiguous(c)
        ELSE IF self_ty = "FnPtr"
             THEN (IF facts.fn_sig_normal THEN push(c, FnPointerCandidate(FALSE)) ELSE c)
        ELSE IF self_ty = "FnDef"
             THEN (IF facts.fn_sig_normal /\ facts.no_target_features
                   THEN push(c, FnPointerCandidate(facts.is_const_fn)) ELSE c)
        ELSE c

\* the supertraits whose upcast trait reference matches the obligation, as
\* object candidates, lines 685-699 (idx counted from 0)
RECURSIVE candidate_supertraits(_, _)
candidate_supertraits(supertraits, idx) ==
    IF supertraits = <<>> THEN <<>>
    ELSE (IF Head(supertraits).matches THEN <<ObjectCandidate(idx)>> ELSE <<>>)
         \o candidate_supertraits(Tail(supertraits), idx + 1)

\* lines 627-701
assemble_candidates_from_object_ty(facts, obligation, candidates) ==
    LET c == run(candidates, "object_ty")
        self_ty == obligation.predicate.self_ty
    IN  IF is_dynamic(self_ty)
        THEN IF obligation.predicate.trait \in facts.auto_traits
             THEN push(c, BuiltinObjectCandidate)
             ELSE IF facts.principal = "None" THEN c
             ELSE IF facts.object_safe_for_dispatch /\ ~facts.principal_object_safe THEN c
             ELSE probe(c.infcx, extend(unified(c, obligation.predicate),
                                        candidate_supertraits(facts.supertraits, 0)))
        ELSE IF is_ty_var(self_ty) THEN set_ambiguous(c)
        ELSE c

\* lines 337-362
assemble_candidates_from_projected_tys(facts, obligation, candidates) ==
    LET c == run(candidates, "projected_tys")
        bounds == facts.projection_bounds
    IN  IF obligation.predicate.self_ty \in {"Projection", "Opaque"}
        THEN probe(c.infcx,
                   extend(unified(c, obligation.predicate),
                          [k \in 1..Len(bounds) |->
                              ProjectionCandidate(bounds[k].idx, bounds[k].constness)]))
        ELSE c

\* EvaluationResult::may_apply
may_apply(evaluation) == evaluation \in {"EvaluatedToOk", "EvaluatedToAmbig"}

\* SelectionContext::where_clause_may_apply (line 391) on the inference
\* state: the where clause is matched and evaluated inside an evaluation
\* probe
where_clause_may_apply(c, predicate) == probe(c.infcx, unified(c, predicate))

\* the outcomes of an evaluation that are an OverflowError
OverflowErrors == {"Canonical", "ErrorReporting", "Error"}

\* lines 369-398: the bounds of the obligation's trait are tried in order;
\* the result is the candidate set and the error of where_clause_may_apply,
\* "None" when there is none.  A ParamCandidate is named by the place of its
\* bound in the caller bounds, counted from 0.
RECURSIVE try_caller_bounds(_, _, _, _)
try_caller_bounds(all_bounds, predicate, k, c) ==
    IF k > Len(all_bounds) THEN [candidates |-> c, err |-> "None"]
    ELSE IF all_bounds[k].trait # predicate.trait
         THEN try_caller_bounds(all_bounds, predicate, k + 1, c)
    ELSE IF all_bounds[k].wc \in OverflowErrors
         THEN [candidates |-> where_clause_may_apply(c, predicate), err |-> all_bounds[k].wc]
    ELSE try_caller_bounds(all_bounds, predicate, k + 1,
                           IF may_apply(all_bounds[k].wc)
                           THEN push(where_clause_may_apply(c, predicate),
                                     ParamCandidate(k - 1))
                           ELSE where_clause_may_apply(c, predicate))

assemble_candidates_from_caller_bounds(facts, stack, candidates) ==
    try_caller_bounds(facts.caller_bounds, stack.predicate, 1,
                      run(candidates, "caller_bounds"))

\* lines 561-624
assemble_candidates_from_auto_impls(facts, obligation, candidates) ==
    LET c == run(candidates, "auto_impls")
        self_ty == obligation.predicate.self_ty
    IN  IF ~trait_is_auto(obligation.predicate.trait) THEN c
        ELSE IF is_dynamic(self_ty) \/ self_ty \in {"Foreign", "Param", "Projection"} THEN c
        ELSE IF is_ty_var(self_ty) THEN set_ambiguous(c)
        ELSE IF self_ty = "Generator" /\ obligation.predicate.trait = "Unpin"
             THEN (IF facts.movability = "Static" THEN c
                   ELSE push(c, BuiltinCandidate(FALSE)))
        ELSE push(c, AutoImplCandidate)

\* the lang-item switch of the positive branch, lines 272-322
assemble_by_lang_item_nothing_builtin(infcx, facts, obligation, c) ==
    assemble_candidates_from_impls(facts, obligation, c)

assemble_by_lang_item(infcx, facts, obligation, c) ==
    LET def_id == obligation.predicate.trait
    IN  CASE def_id = "Copy" ->
               assemble_builtin_bound_candidates(
                   copy_clone_conditions(facts, obligation),
                   assemble_candidates_from_impls(facts, obligation, c))
          [] def_id = "DiscriminantKind" -> push(c, DiscriminantKindCandidate)
          [] def_id = "Pointee" -> push(c, PointeeCandidate)
          [] def_id = "Sized" ->
               assemble_builtin_bound_candidates(sized_conditions(facts, obligation), c)
          [] def_id = "Unsize" -> assemble_candidates_for_unsizing(facts, obligation, c)
          [] def_id = "Destruct" ->
               assemble_const_destruct_candidates(infcx, facts, obligation, c)
          [] def_id = "Transmute" ->
               assemble_candidates_for_transmutability(
                   obligation, assemble_candidates_from_impls(facts, obligation, c))
          [] def_id = "Tuple" -> assemble_candidate_for_tuple(infcx, obligation, c)
          [] def_id = "PointerSized" -> assemble_candidate_for_ptr_sized(facts, obligation, c)
          [] OTHER ->
               LET c1 == IF def_id = "Clone"
                         THEN assemble_builtin_bound_candidates(
                                  copy_clone_conditions(facts, obligation), c)
                         ELSE c
                   c2 == assemble_generator_candidates(obligation, c1)
                   c3 == assemble_closure_candidates(facts, obligation, c2)
                   c4 == assemble_fn_pointer_candidates(facts, obligation, c3)
                   c5 == assemble_candidates_from_impls(facts, obligation, c4)
               IN  assemble_candidates_from_object_ty(facts, obligation, c5)

\* the self-type test of line 246
self_ty_is_unresolved_never(obligation) == FALSE

self_ty_is_unresolved(obligation) == is_ty_var(obligation.predicate.self_ty)

\* Ok(candidates): the SelectionCandidateSet, with err "None"
assembled(c) ==
    [vec |-> c.vec, ambiguous |-> c.ambiguous, ran |-> c.ran, infcx |-> c.infcx,
     err |-> "None"]

\* lines 325-330
after_caller_bounds_rejecting_empty(facts, obligation, r4) ==
    IF r4.err # "None"
    THEN [vec |-> <<>>, ambiguous |-> FALSE, ran |-> r4.candidates.ran,
          infcx |-> r4.candidates.infcx, err |-> r4.err]
    ELSE IF r4.candidates.vec = <<>>
         THEN [vec |-> <<>>, ambiguous |-> FALSE, ran |-> r4.candidates.ran,
               infcx |-> r4.candidates.infcx, err |-> "Unimplemented"]
         ELSE assembled(r4.candidates)

after_caller_bounds_auto_impls_always(facts, obligation, r4) ==
    IF r4.err # "None"
    THEN [vec |-> <<>>, ambiguous |-> FALSE, ran |-> r4.candidates.ran,
          infcx |-> r4.candidates.infcx, err |-> r4.err]
    ELSE assembled(assemble_candidates_from_auto_impls(facts, obligation, r4.candidates))

\* lines 325-330: r4 is what assemble_candidates_from_caller_bounds gave;
\* its error leaves the function through `?`, and the auto impls are
\* considered only when there is no other candidate
after_caller_bounds(facts, obligation, r4) ==
    IF r4.err # "None"
    THEN [vec |-> <<>>, ambiguous |-> FALSE, ran |-> r4.candidates.ran,
          infcx |-> r4.candidates.infcx, err |-> r4.err]
    ELSE IF r4.candidates.vec = <<>>
         THEN assembled(assemble_candidates_from_auto_impls(facts, obligation, r4.candidates))
         ELSE assembled(r4.candidates)

\* lines 246-333; obligation is the obligation with its predicate resolved
assemble_resolved_ignoring_polarity(infcx, facts, stack, obligation) ==
    IF self_ty_is_unresolved(obligation)
    THEN assembled([EmptyCandidateSet EXCEPT !.ambiguous = TRUE, !.infcx = infcx])
    ELSE after_caller_bounds(facts, obligation,
             assemble_candidates_from_caller_bounds(facts, stack,
                 assemble_candidates_from_projected_tys(facts, obligation,
                     assemble_by_lang_item(infcx, facts, obligation,
                         assemble_candidates_for_trait_alias(obligation,
                             [EmptyCandidateSet EXCEPT !.infcx = infcx])))))

assemble_resolved(infcx, facts, stack, obligation) ==
    IF self_ty_is_unresolved(obligation)
    THEN assembled([EmptyCandidateSet EXCEPT !.ambiguous = TRUE, !.infcx = infcx])
    ELSE IF obligation.predicate.polarity = "Negative"
    THEN assembled(assemble_candidates_from_impls(facts, obligation,
                       assemble_candidates_for_trait_alias(obligation,
                           [EmptyCandidateSet EXCEPT !.infcx = infcx])))
    ELSE after_caller_bounds(facts, obligation,
             assemble_candidates_from_caller_bounds(facts, stack,
                 assemble_candidates_from_projected_tys(facts, obligation,
                     assemble_by_lang_item(infcx, facts, obligation,
                         assemble_candidates_for_trait_alias(obligation,
                             [EmptyCandidateSet EXCEPT !.infcx = infcx])))))

\* lines 234-334; the result is the SelectionCandidateSet with err "None", or
\* err the SelectionError when where_clause_may_apply fails
assemble_candidates(infcx, facts, stack) ==
    assemble_resolved(infcx, facts, stack,
        [stack EXCEPT !.predicate = resolve_vars_if_possible(infcx, stack.predicate)])

(***************************************************************************)
(* Helpers on sequences.                                                   *)
(***************************************************************************)
Range(s) == {s[k] : k \in 1..Len(s)}

\* Vec::swap_remove(i), i counted from 0: the element at i is removed and the
\* last element takes its place.
swap_remove_ordered(v, i) ==
    [k \in 1..(Len(v) - 1) |-> IF k < i + 1 THEN v[k] ELSE v[k + 1]]

swap_remove(v, i) ==
    [k \in 1..(Len(v) - 1) |-> IF k = i + 1 THEN v[Len(v)] ELSE v[k]]

(***************************************************************************)
(* The deduplication loop, lines 176-206.                                  *)
(*                                                                         *)
(* candidate_should_be_dropped_in_favor_of is the specialization-ordering  *)
(* oracle: pref is the relation it answers for the obligation at hand (the *)
(* needs_infer argument is a function of that obligation), a set of pairs  *)
(* <<victim, other>> of candidates.                                        *)
(***************************************************************************)
candidate_should_be_dropped_in_favor_of(pref, victim, other) ==
    <<victim.candidate, other.candidate>> \in pref

\* line 184-190, i and j counted from 0 as in the source
is_dup_any_j(pref, candidates, i) ==
    \E j \in 0..(Len(candidates) - 1) :
        candidate_should_be_dropped_in_favor_of(pref, candidates[i + 1], candidates[j + 1])

is_dup(pref, candidates, i) ==
    \E j \in 0..(Len(candidates) - 1) :
        /\ i # j
        /\ candidate_should_be_dropped_in_favor_of(pref, candidates[i + 1], candidates[j + 1])

\* the state of the loop when it is entered (line 181-182); pc is "loop" while
\* the loop runs, "ambig" after `return Ok(None)` of line 202, "done" when the
\* loop was skipped or left by its condition
dedup_enter(pref, candidates) ==
    [ pref       |-> pref,
      vec        |-> candidates,
      candidates |-> candidates,
      i          |-> 0,
      iters      |-> 0,
      pc         |-> IF Len(candidates) > 1 THEN "loop" ELSE "done" ]

\* the early return of line 200-203
ambig_after_retain_late(i) == i > 2

ambig_after_retain(i) == i > 1

\* one iteration of a loop that scans again from the start after a removal
dedup_iteration_restarting(d) ==
    IF ~(d.i < Len(d.candidates))
    THEN [d EXCEPT !.pc = "done"]
    ELSE IF is_dup(d.pref, d.candidates, d.i)
         THEN [d EXCEPT !.candidates = swap_remove(d.candidates, d.i),
                        !.i = 0,
                        !.iters = d.iters + 1]
         ELSE [d EXCEPT !.i = d.i + 1,
                        !.iters = d.iters + 1,
                        !.pc = IF ambig_after_retain(d.i + 1) THEN "ambig" ELSE "loop"]

\* one iteration of the while loop, lines 183-205
dedup_iteration(d) ==
    IF ~(d.i < Len(d.candidates))
    THEN [d EXCEPT !.pc = "done"]
    ELSE IF is_dup(d.pref, d.candidates, d.i)
         THEN [d EXCEPT !.candidates = swap_remove(d.candidates, d.i),
                        !.iters = d.iters + 1]
         ELSE [d EXCEPT !.i = d.i + 1,
                        !.iters = d.iters + 1,
                        !.pc = IF ambig_after_retain(d.i + 1) THEN "ambig" ELSE "loop"]

RECURSIVE dedup_run(_)
dedup_run(d) == IF d.pc = "loop" THEN dedup_run(dedup_iteration(d)) ELSE d

(***************************************************************************)
(* Selection results (SelectionResult<SelectionCandidate>):                *)
(* Ok(Some(c)) is Selected(c), Ok(None) is Ambiguous, and the errors are   *)
(* Unimplemented, Overflow(OverflowError) and ErrorReporting.              *)
(***************************************************************************)
Result(tag, candidate, detail) == [tag |-> tag, candidate |-> candidate, detail |-> detail]

Selected(c) == Result("Selected", c, "None")
Ambiguous == Result("Ambiguous", NoCandidate, "None")
Unimplemented == Result("Unimplemented", NoCandidate, "None")
Overflow(e) == Result("Overflow", NoCandidate, e)
ErrorReporting == Result("ErrorReporting", NoCandidate, "None")
NoResult == Result("None", NoCandidate, "None")

\* From<OverflowError> for SelectionError, used by `?` (lines 38, 87, 325)
\* and spelled out at lines 167-169
selection_error(e) == IF e = "ErrorReporting" THEN ErrorReporting ELSE Overflow(e)

(***************************************************************************)
(* The state a selection call works on: the candidate cache, the           *)
(* ambiguity-cause side channel (intercrate_ambiguity_causes, an Option of *)
(* a set), and the record of what the call did (log), which is not program *)
(* state.  caching is FALSE only for the reference runs that describe      *)
(* selection with the cache disabled.                                      *)
(***************************************************************************)
EmptyCache == [k \in {} |-> NoResult]

Event(ev, stack, key, result) ==
    [ev |-> ev, depth |-> stack.recursion_depth, key |-> key, result |-> result]

note(st, ev, stack, key, result) ==
    [st EXCEPT !.log = Append(@, Event(ev, stack, key, result))]

\* the cache key: (param_env, freshened predicate), lines 44 and 49
cache_key(infcx, stack) == <<stack.param_env, freshen(infcx, stack.predicate)>>

\* the answers of the compiler for an obligation depend on its key only
facts_of(tcx, key) == IF key \in DOMAIN tcx THEN tcx[key] ELSE NoFacts

\* SelectionContext::check_recursion_limit: the depth is within the limit
RecursionLimit == 2

check_recursion_limit(stack) == stack.recursion_depth <= RecursionLimit

\* SelectionContext::check_candidate_cache and insert_candidate_cache
check_candidate_cache(st, key) ==
    IF st.caching /\ key \in DOMAIN st.cache THEN st.cache[key] ELSE NoResult

insert_candidate_cache(st, key, candidate) ==
    IF st.caching
    THEN [st EXCEPT !.cache = [k \in DOMAIN st.cache \cup {key} |->
                                  IF k = key THEN candidate ELSE st.cache[k]]]
    ELSE st

\* SelectionContext::filter_impls: the candidates not ruled out, in order
filter_impls(facts, candidates, obligation) ==
    SelectSeq(candidates, LAMBDA c : c \notin facts.ruled_out)

\* SelectionContext::filter_reservation_impls: a reservation impl is no winner
filter_reservation_impls(facts, candidate, obligation) ==
    IF candidate.tag = "ImplCandidate" /\ candidate.idx \in facts.reservation_impls
    THEN Ambiguous
    ELSE Selected(candidate)

\* what evaluate_candidate finds for a candidate of the obligation: the
\* outcome of the candidate's own conditions and its nested trait obligations
evaluation_of(facts, c) ==
    IF c \in DOMAIN facts.evaluation THEN facts.evaluation[c]
    ELSE [result |-> "EvaluatedToOk", nested |-> <<>>]

\* the cause pushed at lines 94-111
ambiguity_cause(conflict, stack) ==
    [ kind       |-> IF conflict = "Upstream" THEN "UpstreamCrateUpdate"
                     ELSE "DownstreamCrate",
      trait_desc |-> stack.predicate.trait,
      self_desc  |-> IF ty_has_non_region_infer(stack.predicate.self_ty)
                        \/ stack.predicate.self_ty \in {"Param", "Error"}
                     THEN "None" ELSE stack.predicate.self_ty ]

(***************************************************************************)
(* candidate_from_obligation and candidate_from_obligation_no_cache.       *)
(* Every operator takes the state st of the call and gives the state after *)
(* it together with its value.  evaluate_candidate re-enters               *)
(* candidate_from_obligation for the nested obligations of a candidate,    *)
(* one level deeper.                                                       *)
(***************************************************************************)
RECURSIVE candidate_from_obligation(_, _, _, _)
RECURSIVE candidate_from_obligation_no_cache(_, _, _, _)
RECURSIVE evaluate_candidate(_, _, _, _, _)
RECURSIVE evaluate_nested(_, _, _, _, _, _)
RECURSIVE winnow(_, _, _, _, _)
RECURSIVE any_candidate_applies(_, _, _, _, _)

\* r is the selection of the first nested obligation; an error ends the
\* evaluation, otherwise the remaining obligations follow
nested_selected(infcx, tcx, stack, nested, acc, r) ==
    CASE r.result.tag = "Overflow" ->
            [evaluation |-> r.result.detail, st |-> r.st]
      [] r.result.tag = "ErrorReporting" ->
            [evaluation |-> "ErrorReporting", st |-> r.st]
      [] r.result.tag = "Unimplemented" ->
            [evaluation |-> "EvaluatedToErr", st |-> r.st]
      [] r.result.tag = "Ambiguous" ->
            evaluate_nested(infcx, tcx, r.st, stack, Tail(nested), "EvaluatedToAmbig")
      [] r.result.tag = "Selected" ->
            evaluate_nested(infcx, tcx, r.st, stack, Tail(nested), acc)

\* the nested obligations of a candidate are selected in order, one level
\* deeper; acc is the evaluation so far
evaluate_nested(infcx, tcx, st, stack, nested, acc) ==
    IF nested = <<>> THEN [evaluation |-> acc, st |-> st]
    ELSE nested_selected(infcx, tcx, stack, nested, acc,
             candidate_from_obligation(infcx, tcx, st,
                 Obligation(stack.param_env, Head(nested), stack.recursion_depth + 1)))

\* e is what the compiler finds for the candidate's own conditions
evaluate_conditions(infcx, tcx, st, stack, e) ==
    IF e.result \in OverflowErrors \cup {"EvaluatedToErr"}
    THEN [evaluation |-> e.result, st |-> st]
    ELSE evaluate_nested(infcx, tcx, st, stack, e.nested, e.result)

\* SelectionContext::evaluate_candidate: an EvaluationResult, or an
\* OverflowError
evaluate_candidate(infcx, tcx, st, stack, c) ==
    evaluate_conditions(infcx, tcx,
        note(st, "evaluate_candidate", stack, cache_key(infcx, stack), Selected(c)),
        stack,
        evaluation_of(facts_of(tcx, cache_key(infcx, stack)), c))

\* the closure of lines 162-170 on one evaluation
winnow_outcome_no_propagation(evaluation) ==
    IF may_apply(evaluation) THEN "keep" ELSE "drop"

winnow_outcome(evaluation) ==
    IF evaluation \in OverflowErrors THEN "fail"
    ELSE IF may_apply(evaluation) THEN "keep"
    ELSE "drop"

\* lines 163-166 and 171: candidate c with evaluation ev is kept or omitted
\* in front of the rest of the collection
winnow_collect(c, ev, rest) ==
    [ vec |-> (IF winnow_outcome(ev.evaluation) = "keep"
               THEN <<[candidate |-> c, evaluation |-> ev.evaluation]>>
               ELSE <<>>) \o rest.vec,
      err |-> rest.err,
      st  |-> rest.st ]

\* lines 167-172: ev is the evaluation of the first candidate; an error ends
\* the collection
winnow_evaluated_to_the_end(infcx, tcx, stack, candidates, ev) ==
    IF winnow_outcome(ev.evaluation) = "fail"
    THEN [winnow(infcx, tcx, ev.st, stack, Tail(candidates))
             EXCEPT !.vec = <<>>, !.err = ev.evaluation]
    ELSE winnow_collect(Head(candidates), ev,
                        winnow(infcx, tcx, ev.st, stack, Tail(candidates)))

winnow_evaluated(infcx, tcx, stack, candidates, ev) ==
    IF winnow_outcome(ev.evaluation) = "fail"
    THEN [vec |-> <<>>, err |-> ev.evaluation, st |-> ev.st]
    ELSE winnow_collect(Head(candidates), ev,
                        winnow(infcx, tcx, ev.st, stack, Tail(candidates)))

\* lines 160-172: the candidates are evaluated in order and collected; the
\* first error ends the collection
winnow(infcx, tcx, st, stack, candidates) ==
    IF candidates = <<>> THEN [vec |-> <<>>, err |-> "None", st |-> st]
    ELSE winnow_evaluated(infcx, tcx, stack, candidates,
             evaluate_candidate(infcx, tcx, st, stack, Head(candidates)))

\* lines 87-90: ev is the evaluation of the first candidate; an error leaves
\* the function through `?`
applies_evaluated(infcx, tcx, stack, candidates, ev) ==
    IF ev.evaluation \in OverflowErrors
    THEN [applies |-> FALSE, err |-> ev.evaluation, st |-> ev.st]
    ELSE IF may_apply(ev.evaluation)
    THEN [applies |-> TRUE, err |-> "None", st |-> ev.st]
    ELSE any_candidate_applies(infcx, tcx, ev.st, stack, Tail(candidates))

\* lines 84-91: whether some candidate may apply
any_candidate_applies(infcx, tcx, st, stack, candidates) ==
    IF candidates = <<>> THEN [applies |-> FALSE, err |-> "None", st |-> st]
    ELSE applies_evaluated(infcx, tcx, stack, candidates,
             evaluate_candidate(infcx, tcx, st, stack, Head(candidates)))

\* the test of line 154
exactly_one_never(candidates) == FALSE

exactly_one(candidates) == Len(candidates) = 1

\* lines 217-227: no candidate is left
no_candidates_always_unimplemented(stack) == Unimplemented

no_candidates(stack) ==
    IF references_error(stack.predicate) THEN Ambiguous ELSE Unimplemented

\* lines 93-115 with the test of line 93 left out
push_cause_whenever_diagnosing(stack, conflict, set, ap) ==
    IF ap.err # "None" THEN [result |-> selection_error(ap.err), st |-> ap.st]
    ELSE [ result |-> Ambiguous,
           st |-> [ap.st EXCEPT !.causes.set =
                       @ \cup {ambiguity_cause(conflict, stack)}] ]

\* lines 93-115: ap is the outcome of the loop of lines 86-91
push_cause(stack, conflict, set, ap) ==
    IF ap.err # "None" THEN [result |-> selection_error(ap.err), st |-> ap.st]
    ELSE IF ~set.ambiguous /\ ~ap.applies
         THEN [ result |-> Ambiguous,
                st |-> [ap.st EXCEPT !.causes.set =
                            @ \cup {ambiguity_cause(conflict, stack)}] ]
    ELSE [result |-> Ambiguous, st |-> ap.st]

\* lines 83-115: set is what assemble_candidates gave; its error is dropped
diagnose(infcx, tcx, st, stack, conflict, set) ==
    IF set.err # "None" THEN [result |-> Ambiguous, st |-> st]
    ELSE push_cause(stack, conflict, set,
                    any_candidate_applies(infcx, tcx, st, stack, set.vec))

\* lines 78-116: the obligation is not knowable; with the side channel
\* enabled the candidates are assembled and evaluated for the diagnostics
not_knowable(infcx, tcx, st, stack, conflict) ==
    LET key == cache_key(infcx, stack)
    IN  IF ~st.causes.enabled THEN [result |-> Ambiguous, st |-> st]
        ELSE diagnose(infcx, tcx, note(st, "assemble_candidates", stack, key, NoResult),
                      stack, conflict,
                      assemble_candidates(infcx, facts_of(tcx, key), stack))

\* lines 208-230: d is the deduplication loop at its end
select_deduplicated(facts, st, stack, d) ==
    IF d.pc = "ambig" THEN [result |-> Ambiguous, st |-> st]
    ELSE IF d.candidates = <<>> THEN [result |-> no_candidates(stack), st |-> st]
    ELSE [ result |-> filter_reservation_impls(
                          facts, d.candidates[Len(d.candidates)].candidate, stack),
           st |-> st ]

\* lines 172-230: w is the outcome of the winnowing; its error leaves the
\* function through `?`
select_winnowed(facts, stack, w) ==
    IF w.err # "None" THEN [result |-> selection_error(w.err), st |-> w.st]
    ELSE select_deduplicated(facts, w.st, stack, dedup_run(dedup_enter(facts.pref, w.vec)))

\* lines 154-230: candidates is what filter_impls left
select_filtered(infcx, tcx, facts, st, stack, candidates) ==
    IF exactly_one(candidates)
    THEN [ result |-> filter_reservation_impls(facts, candidates[Len(candidates)], stack),
           st |-> st ]
    ELSE select_winnowed(facts, stack, winnow(infcx, tcx, st, stack, candidates))

\* lines 118-230: set is what assemble_candidates gave; its error leaves the
\* function through `?`
select_assembled(infcx, tcx, facts, st, stack, set) ==
    IF set.err # "None" THEN [result |-> selection_error(set.err), st |-> st]
    ELSE IF set.ambiguous THEN [result |-> Ambiguous, st |-> st]
    ELSE select_filtered(infcx, tcx, facts, st, stack,
                         filter_impls(facts, set.vec, stack))

\* lines 118-231: the obligation is knowable
winnow_and_select(infcx, tcx, st, stack) ==
    LET key   == cache_key(infcx, stack)
        facts == facts_of(tcx, key)
    IN  select_assembled(infcx, tcx, facts,
                         note(st, "assemble_candidates", stack, key, NoResult), stack,
                         assemble_candidates(infcx, facts, stack))

\* the result r leaves candidate_from_obligation_no_cache
no_cache_return(stack, key, r) ==
    [result |-> r.result, st |-> note(r.st, "no_cache_return", stack, key, r.result)]

\* lines 74-231
candidate_from_obligation_no_cache(infcx, tcx, st, stack) ==
    LET key   == cache_key(infcx, stack)
        facts == facts_of(tcx, key)
    IN  no_cache_return(stack, key,
            IF facts.knowable # "Ok"
            THEN not_knowable(infcx, tcx, note(st, "no_cache", stack, key, NoResult),
                              stack, facts.knowable)
            ELSE winnow_and_select(infcx, tcx, note(st, "no_cache", stack, key, NoResult),
                                   stack))

\* line 38: the limit is exceeded; the call returns without touching the cache
overflow_return_cached(st, stack, key) ==
    note(insert_candidate_cache(st, key, Overflow("Canonical")),
         "insert", stack, key, Overflow("Canonical"))

overflow_return(st, stack, key) == st

\* lines 65-71: the result r is inserted and returned
insert_and_return(stack, key, r) ==
    [ result |-> r.result,
      st |-> note(insert_candidate_cache(r.st, key, r.result),
                  "insert", stack, key, r.result) ]

insert_unless_error(stack, key, r) ==
    IF r.result.tag \in {"Selected", "Ambiguous"} THEN insert_and_return(stack, key, r)
    ELSE r

\* lines 55-71: no entry; the result is computed, inserted and returned
cache_miss_errors_not_inserted(infcx, tcx, st, stack, key) ==
    insert_unless_error(stack, key,
                        candidate_from_obligation_no_cache(infcx, tcx, st, stack))

cache_miss(infcx, tcx, st, stack, key) ==
    insert_and_return(stack, key, candidate_from_obligation_no_cache(infcx, tcx, st, stack))

\* lines 48-71: c is what check_candidate_cache gave
cache_checked(infcx, tcx, st, stack, key, c) ==
    IF c # NoResult THEN [result |-> c, st |-> st]
    ELSE cache_miss(infcx, tcx, st, stack, key)

\* lines 38-71, after the call was entered
limit_checked(infcx, tcx, st, stack, key) ==
    IF ~check_recursion_limit(stack)
    THEN [result |-> Overflow("Canonical"), st |-> overflow_return(st, stack, key)]
    ELSE cache_checked(infcx, tcx,
                       note(st, "check_candidate_cache", stack, key, NoResult), stack, key,
                       check_candidate_cache(st, key))

\* the result r leaves candidate_from_obligation
call_return(stack, key, r) ==
    [result |-> r.result, st |-> note(r.st, "return", stack, key, r.result)]

\* lines 32-72
candidate_from_obligation(infcx, tcx, st, stack) ==
    LET key == cache_key(infcx, stack)
    IN  call_return(stack, key,
            limit_checked(infcx, tcx, note(st, "call", stack, key, NoResult), stack, key))

(***************************************************************************)
(* The states before any call.                                             *)
(***************************************************************************)
NoCauses == [enabled |-> FALSE, set |-> {}]

TrackedCauses == [enabled |-> TRUE, set |-> {}]

NothingResolved == [v \in TyVars |-> Unresolved]

NothingKnown == [k \in {} |-> NoFacts]

NoStack == Obligation("Env", Predicate("Other", "Int", "Int", "Positive", FALSE), 0)

NoCall ==
    [ kind          |-> "none",
      stack         |-> NoStack,
      key           |-> cache_key(NothingResolved, NoStack),
      result        |-> NoResult,
      log           |-> <<>>,
      cache_before  |-> EmptyCache,
      causes_before |-> NoCauses,
      overflowed    |-> {} ]

\* the record of a call of `kind` on `stack` that gave r from the state
\* before; overflowed collects the keys of the calls made beyond the limit
Call(kind, stack, r) ==
    [ kind          |-> kind,
      stack         |-> stack,
      key           |-> cache_key(bindings, stack),
      result        |-> r.result,
      log           |-> r.st.log,
      cache_before  |-> cache,
      causes_before |-> causes,
      overflowed    |-> ret.overflowed \cup
                          (IF check_recursion_limit(stack) THEN {}
                           ELSE {cache_key(bindings, stack)}) ]

\* the state a call starts from
Enter == [cache |-> cache, caching |-> TRUE, causes |-> causes, log |-> <<>>]

\* a call of `kind` on `stack` returns r: the cache and the side channel are
\* those the call left, and ret is the record of the call
Returns(kind, stack, r) ==
    /\ cache' = r.st.cache
    /\ causes' = r.st.causes
    /\ ret' = Call(kind, stack, r)

(***************************************************************************)
(* SpecDedup: the loop on every list of at most MaxCands evaluated         *)
(* candidates (the candidate is its insertion index, counted from 0) and   *)
(* every preference relation between them.                                 *)
(***************************************************************************)
EvaluatedList(n) ==
    [k \in 1..n |-> [candidate |-> k - 1, evaluation |-> "EvaluatedToOk"]]

DedupInit ==
    /\ cache = EmptyCache
    /\ causes = NoCauses
    /\ bindings = NothingResolved
    /\ world = NothingKnown
    /\ ret = NoCall
    /\ \E n \in 0..MaxCands :
          \E pref \in SUBSET ((0..(n - 1)) \X (0..(n - 1))) :
              dedup = dedup_enter(pref, EvaluatedList(n))

DedupDrop ==
    /\ dedup.pc = "loop"
    /\ dedup.i < Len(dedup.candidates)
    /\ is_dup(dedup.pref, dedup.candidates, dedup.i)
    /\ dedup' = dedup_iteration(dedup)
    /\ UNCHANGED <<cache, causes, bindings, world, ret>>

DedupRetain ==
    /\ dedup.pc = "loop"
    /\ dedup.i < Len(dedup.candidates)
    /\ ~is_dup(dedup.pref, dedup.candidates, dedup.i)
    /\ dedup' = dedup_iteration(dedup)
    /\ UNCHANGED <<cache, causes, bindings, world, ret>>

DedupExit ==
    /\ dedup.pc = "loop"
    /\ ~(dedup.i < Len(dedup.candidates))
    /\ dedup' = dedup_iteration(dedup)
    /\ UNCHANGED <<cache, causes, bindings, world, ret>>

DedupNext == DedupDrop \/ DedupRetain \/ DedupExit

SpecDedup == DedupInit /\ [][DedupNext]_vars

\* the loop is sequential code of one thread: once entered it goes on with
\* its next iteration until it is left
SpecDedupFair == SpecDedup /\ WF_vars(DedupNext)

(***************************************************************************)
(* SpecSelect: a sequence of candidate_from_obligation calls on one cache. *)
(* The obligations are `Int: Other<arg>` with arg a type variable or Int,  *)
(* at every depth up to one beyond the limit; between calls inference may  *)
(* bind TyVar2 to Int, which moves the obligations on TyVar2 to the key of *)
(* `Int: Other<Int>`.  The compiler's answers for the two keys are drawn   *)
(* from SelectFacts: no impl, one impl, two impls of which the first has   *)
(* one of the obligations as nested obligation, or not knowable.           *)
(***************************************************************************)
OtherOf(arg) == Predicate("Other", "Int", arg, "Positive", FALSE)

SelectArgs == {"TyVar1", "TyVar2", "Int"}

UnifiableVars == {"TyVar2"}

SelectStacks ==
    { Obligation("Env", OtherOf(arg), depth) :
        arg \in SelectArgs, depth \in 0..(RecursionLimit + 1) }

NestedChoices == {<<>>, <<OtherOf("TyVar2")>>, <<OtherOf("Int")>>}

TwoImpls(result, nested, pref) ==
    [NoFacts EXCEPT !.impls = <<Impl(1), Impl(2)>>,
                    !.evaluation = [c \in {ImplCandidate(1)} |->
                                       [result |-> result, nested |-> nested]],
                    !.pref = pref]

NotKnowable(nested) ==
    [NoFacts EXCEPT !.knowable = "Downstream",
                    !.impls = <<Impl(1)>>,
                    !.evaluation = [c \in {ImplCandidate(1)} |->
                                       [result |-> "EvaluatedToOk", nested |-> nested]]]

SelectFacts ==
    { NoFacts, [NoFacts EXCEPT !.impls = <<Impl(1)>>] }
    \cup { TwoImpls("EvaluatedToOk", n, p) :
             n \in NestedChoices, p \in {{}, {<<ImplCandidate(1), ImplCandidate(2)>>}} }
    \cup { TwoImpls("EvaluatedToErr", <<>>, {}) }
    \cup { NotKnowable(n) : n \in {<<>>, <<OtherOf("Int")>>} }

SelectInit ==
    /\ cache = EmptyCache
    /\ bindings = NothingResolved
    /\ ret = NoCall
    /\ dedup = dedup_enter({}, <<>>)
    /\ causes \in {NoCauses, TrackedCauses}
    /\ \E fv, fi \in SelectFacts :
          world = [k \in {<<"Env", OtherOf("FreshTy0")>>, <<"Env", OtherOf("Int")>>} |->
                      IF k[2].arg = "Int" THEN fi ELSE fv]

Select(stack) ==
    /\ Returns("select", stack, candidate_from_obligation(bindings, world, Enter, stack))
    /\ UNCHANGED <<bindings, world, dedup>>

\* inference binds the variable v to Int between two calls
Unify(v) ==
    /\ bindings[v] = Unresolved
    /\ bindings' = [bindings EXCEPT ![v] = "Int"]
    /\ ret' = [NoCall EXCEPT !.overflowed = ret.overflowed]
    /\ UNCHANGED <<cache, causes, world, dedup>>

SelectNext ==
    \/ \E stack \in SelectStacks : Select(stack)
    \/ \E v \in UnifiableVars : Unify(v)

SpecSelect == SelectInit /\ [][SelectNext]_vars

(***************************************************************************)
(* SpecNoCache: candidate_from_obligation_no_cache on one obligation, for  *)
(* every obligation and every answer of the compiler drawn from the sets   *)
(* below.  The obligation is fixed by Init (ret.kind = "pending") and      *)
(* NoCacheCall runs the function on it.                                    *)
(***************************************************************************)
AllTraits ==
    { "Copy", "Clone", "Sized", "DiscriminantKind", "Pointee", "Unsize", "Destruct",
      "Transmute", "Tuple", "PointerSized", "Generator", "Fn", "Send", "Unpin",
      "Alias", "Other" }

\* the self type of the obligation and the binding of TyVar1
SelfOf(self_ty, binding) == [self_ty |-> self_ty, binding |-> binding]

ResolvedSelfs ==
    { SelfOf("Int", Unresolved), SelfOf("Error", Unresolved),
      SelfOf("TyVar1", "Int"), SelfOf("TyVar1", "Error") }

UnresolvedSelfs == { SelfOf("TyVar1", Unresolved), SelfOf("TyVar2", Unresolved) }

Shape(trait, self, polarity) == [trait |-> trait, self |-> self, polarity |-> polarity]

NoCacheShapes ==
    { Shape(t, s, "Positive") : t \in {"Other", "Sized", "Send"}, s \in ResolvedSelfs }
    \cup { Shape("Other", s, "Negative") : s \in ResolvedSelfs }
    \cup { Shape(t, s, p) : t \in AllTraits, s \in UnresolvedSelfs,
                            p \in {"Positive", "Negative"} }

\* where the candidates of the obligation come from: at most two of them
Source(impls, caller_bounds, conditions) ==
    [impls |-> impls, caller_bounds |-> caller_bounds, conditions |-> conditions]

NoCacheSources(trait) ==
    { Source(i, b, c) :
        i \in {<<>>, <<Impl(1)>>, <<Impl(1), Impl(2)>>},
        b \in {<<>>, <<Bound(trait, "EvaluatedToOk")>>, <<Bound(trait, "EvaluatedToErr")>>,
               <<Bound(trait, "Canonical")>>, <<Bound(trait, "ErrorReporting")>>},
        c \in IF trait = "Sized" THEN {"None", "WhereEmpty", "Ambiguous"} ELSE {"None"} }

Conflicts == {"Ok", "Upstream", "Downstream"}

EvaluationResults ==
    {"EvaluatedToOk", "EvaluatedToAmbig", "EvaluatedToErr", "Canonical", "ErrorReporting",
     "Error"}

Leaf(result) == [result |-> result, nested |-> <<>>]

OtherPairs(cands) == {p \in cands \X cands : p[1] # p[2]}

Pending(infcx, stack) ==
    [NoCall EXCEPT !.kind = "pending", !.stack = stack, !.key = cache_key(infcx, stack)]

\* the obligation, the inference state and the answers of the compiler of
\* one initial state; cands are the candidates assemble_candidates gives
NoCacheInputs(stack, b, base, tracked, cands) ==
    /\ Cardinality(cands) <= 2
    /\ \E ruled \in SUBSET cands, reserved \in SUBSET {1},
          ev \in [cands -> EvaluationResults], pref \in SUBSET OtherPairs(cands) :
         /\ bindings = b
         /\ world = [k \in {cache_key(b, stack)} |->
                       [base EXCEPT !.ruled_out = ruled,
                                    !.reservation_impls = reserved,
                                    !.evaluation = [c \in cands |-> Leaf(ev[c])],
                                    !.pref = pref]]
         /\ causes = IF tracked THEN TrackedCauses ELSE NoCauses
         /\ ret = Pending(b, stack)

NoCacheInit ==
    /\ cache = EmptyCache
    /\ dedup = dedup_enter({}, <<>>)
    /\ \E sh \in NoCacheShapes, knowable \in Conflicts, tracked \in BOOLEAN :
         \E src \in NoCacheSources(sh.trait) :
           LET stack == Obligation("Env",
                            Predicate(sh.trait, sh.self.self_ty, "Int", sh.polarity, FALSE), 0)
               b     == [NothingResolved EXCEPT ![sh.self.self_ty] =
                            IF sh.self.self_ty \in TyVars THEN sh.self.binding ELSE @]
               base  == [NoFacts EXCEPT !.knowable = knowable,
                                        !.impls = src.impls,
                                        !.caller_bounds = src.caller_bounds,
                                        !.conditions = src.conditions]
           IN  NoCacheInputs(stack, b, base, tracked,
                             Range(assemble_candidates(b, base, stack).vec))

NoCacheCall ==
    /\ ret.kind = "pending"
    /\ Returns("no_cache", ret.stack,
               candidate_from_obligation_no_cache(bindings, world, Enter, ret.stack))
    /\ UNCHANGED <<bindings, world, dedup>>

NoCacheNext == NoCacheCall

SpecNoCache == NoCacheInit /\ [][NoCacheNext]_vars

(***************************************************************************)
(* SpecAssemble: one call of assemble_candidates on an obligation of every *)
(* trait, self type, type argument and polarity, with the answers of the   *)
(* compiler that the assemblers of that trait ask for.                     *)
(***************************************************************************)
AssembleSelfs ==
    { SelfOf(ty, Unresolved) :
        ty \in {"Int", "IntVar", "Adt", "Tuple", "Array", "Dynamic", "DynStar", "Closure",
                "Generator", "FnPtr", "FnDef", "Param", "Projection", "Opaque", "Foreign",
                "Error", "TyVar1"} }
    \cup { SelfOf("TyVar1", "Int"), SelfOf("TyVar1", "Error") }

\* substs.type_at(1): the target of an Unsize obligation, the source of a
\* transmutation, an argument of any other trait
AssembleArgs(trait) ==
    IF trait = "Unsize" THEN {"Int", "TyVar2", "Dynamic", "DynStar", "Slice", "Adt", "Tuple"}
    ELSE IF trait = "Transmute" THEN {"Int", "TyVar2", "Param"}
    ELSE {"Int", "TyVar2"}

\* the impls of the trait: none, one that unifies, one that the fast reject
\* skips and one that does not unify, and these two and one that unifies
AssembleImpls ==
    { <<>>, <<Impl(1)>>,
      << [id |-> 1, fast_reject |-> TRUE, matches |-> FALSE],
         [id |-> 2, fast_reject |-> FALSE, matches |-> FALSE] >>,
      << [id |-> 1, fast_reject |-> TRUE, matches |-> FALSE],
         [id |-> 2, fast_reject |-> FALSE, matches |-> FALSE], Impl(3) >> }

\* the caller bounds: a bound of another trait is "Other" or "Sized"
AssembleBounds(trait) ==
    LET other == IF trait = "Other" THEN "Sized" ELSE "Other"
    IN  { <<>>, <<Bound(trait, "EvaluatedToOk")>>, <<Bound(trait, "EvaluatedToErr")>>,
          <<Bound(other, "EvaluatedToOk"), Bound(trait, "EvaluatedToErr"),
            Bound(trait, "EvaluatedToAmbig")>>,
          <<Bound(trait, "EvaluatedToOk"), Bound(trait, "Canonical")>>,
          <<Bound(other, "Canonical"), Bound(trait, "ErrorReporting")>> }

\* the answers the assemblers of `trait` ask for on this self type and
\* argument, all others being those of NoFacts.  A supertrait of the
\* principal of a trait object is [trait, matches], matches being the answer
\* of match_normalize_trait_ref; util::supertraits of the principal "Sub" are
\* the principal itself, then "Super" once or twice (with different type
\* arguments).
AssembleAnswers(trait, self_ty, arg) ==
    LET supertraits ==
            { <<[trait |-> "Sub", matches |-> TRUE]>>,
              <<[trait |-> "Sub", matches |-> FALSE], [trait |-> "Super", matches |-> TRUE]>>,
              <<[trait |-> "Sub", matches |-> FALSE], [trait |-> "Super", matches |-> TRUE],
                [trait |-> "Super", matches |-> TRUE]>> }
        objects ==
            { [NoFacts EXCEPT !.auto_traits = a, !.principal = p, !.supertraits = s,
                              !.principal_object_safe = safe,
                              !.object_safe_for_dispatch = dispatch]
                : a \in {{}, {trait}}, p \in {"None", "Sub"}, s \in supertraits,
                  safe \in BOOLEAN, dispatch \in BOOLEAN }
        upcasts ==
            { [NoFacts EXCEPT !.auto_traits = a, !.target_auto_traits = b, !.principal = p,
                              !.target_principal = q, !.supertraits = s, !.deref_output = d]
                : a \in SUBSET {"Send"}, b \in SUBSET {"Send"}, p \in {"None", "Sub"},
                  q \in {"None", "Sub", "Super"}, s \in supertraits,
                  d \in {"None", "Super"} }
    IN  IF trait \in {"Copy", "Clone", "Sized"}
        THEN { [NoFacts EXCEPT !.conditions = c] : c \in {"None", "WhereEmpty", "WhereNested"} }
        ELSE IF trait = "Unsize"
        THEN (IF is_dynamic(self_ty) /\ is_dynamic(arg) THEN upcasts
              ELSE { [NoFacts EXCEPT !.self_has_bound_vars = b, !.source_is_struct = s,
                                     !.same_adt = e, !.same_tuple_len = e]
                       : b \in BOOLEAN, s \in BOOLEAN, e \in BOOLEAN })
        ELSE IF trait = "Destruct"
        THEN { [NoFacts EXCEPT !.drop_impl = d] : d \in {"None", "Const", "NotConst"} }
        ELSE IF trait = "PointerSized"
        THEN { [NoFacts EXCEPT !.ptr_sized_layout = l] : l \in BOOLEAN }
        ELSE IF is_dynamic(self_ty) THEN objects
        ELSE IF trait = "Fn"
        THEN { [NoFacts EXCEPT !.closure_kind = k, !.fn_sig_normal = n,
                               !.no_target_features = f, !.is_const_fn = f]
                 : k \in {"Unknown", "Extends", "NotExtends"}, n \in BOOLEAN, f \in BOOLEAN }
        ELSE IF trait = "Unpin"
        THEN { [NoFacts EXCEPT !.movability = m] : m \in {"Movable", "Static"} }
        ELSE IF self_ty \in {"Projection", "Opaque"}
        THEN { [NoFacts EXCEPT !.projection_bounds = b]
                 : b \in { <<>>, <<[idx |-> 0, constness |-> "NotConst"]>>,
                           <<[idx |-> 0, constness |-> "NotConst"],
                             [idx |-> 2, constness |-> "ConstIfConst"]>> } }
        ELSE { NoFacts }

\* the call is pending on the obligation; ret.set is the set once
\* assemble_candidates has returned
AssembleInit ==
    /\ cache = EmptyCache
    /\ causes = NoCauses
    /\ dedup = dedup_enter({}, <<>>)
    /\ \E trait \in AllTraits, self \in AssembleSelfs,
          polarity \in {"Positive", "Negative"}, impls \in AssembleImpls :
         \E arg \in AssembleArgs(trait), bounds \in AssembleBounds(trait),
            is_const \in (IF trait = "Destruct" THEN BOOLEAN ELSE {FALSE}) :
           \E answers \in AssembleAnswers(trait, self.self_ty, arg) :
             /\ bindings = [NothingResolved EXCEPT !["TyVar1"] = self.binding]
             /\ world = [k \in {cache_key(bindings,
                                  Obligation("Env", Predicate(trait, self.self_ty, arg,
                                                              polarity, is_const), 0))} |->
                           [answers EXCEPT !.impls = impls, !.caller_bounds = bounds]]
             /\ ret = [ kind  |-> "pending",
                        stack |-> Obligation("Env", Predicate(trait, self.self_ty, arg,
                                                              polarity, is_const), 0),
                        set   |-> assembled(EmptyCandidateSet) ]

\* lines 234-334: assemble_candidates returns the set for the pending
\* obligation and leaves the inference state as its assemblers left it
Assemble ==
    /\ ret.kind = "pending"
    /\ ret' = [ret EXCEPT !.kind = "assembled",
                          !.set = assemble_candidates(bindings,
                                      facts_of(world, cache_key(bindings, ret.stack)),
                                      ret.stack)]
    /\ bindings' = ret'.set.infcx
    /\ UNCHANGED <<cache, causes, world, dedup>>

SpecAssemble == AssembleInit /\ [][Assemble]_vars

(***************************************************************************)
(* Claims about candidate_from_obligation and the candidate cache (checked *)
(* under SpecSelect).  ret.log is the record of the last call: the events  *)
(* of the call itself and of the calls nested in it, each with the depth   *)
(* of the obligation it belongs to.                                        *)
(***************************************************************************)
SelectReturned == ret.kind = "select"

OverLimit(depth) == depth > RecursionLimit

\* the cache after the first n events of the call
RECURSIVE CacheAfter(_)
CacheAfter(n) ==
    IF n = 0 THEN ret.cache_before
    ELSE LET c == CacheAfter(n - 1)
             e == ret.log[n]
         IN  IF e.ev = "insert"
             THEN [k \in DOMAIN c \cup {e.key} |-> IF k = e.key THEN e.result ELSE c[k]]
             ELSE c

IsCall(i) == ret.log[i].ev = "call"

IsReturnOf(i, j) == ret.log[j].ev = "return" /\ ret.log[j].depth = ret.log[i].depth

\* the return of the call that starts at event i
ReturnOf(i) ==
    CHOOSE j \in (i + 1)..Len(ret.log) :
        IsReturnOf(i, j) /\ \A m \in (i + 1)..(j - 1) : ~IsReturnOf(i, m)

\* the events between i and j that the call starting at i produced itself
OwnEvents(i, j, ev) ==
    {m \in i..j : ret.log[m].depth = ret.log[i].depth /\ ret.log[m].ev = ev}

\* the last call ran candidate_from_obligation_no_cache for its own obligation
ComputedAfresh ==
    \E m \in 1..Len(ret.log) :
        /\ ret.log[m].ev = "no_cache"
        /\ ret.log[m].depth = ret.stack.recursion_depth
        /\ ret.log[m].key = ret.key

\* C1: candidate_from_obligation checks the recursion limit before it looks
\* at the cache; beyond the limit it returns Overflow and the cache is
\* neither read nor written (for the call itself and for every nested
\* call), so a later call for the same key within the limit that finds no
\* entry computes the result afresh.
C1_OverflowBypassesCache ==
    SelectReturned =>
        /\ \A i \in 1..Len(ret.log) :
              (IsCall(i) /\ OverLimit(ret.log[i].depth)) =>
                  /\ i < Len(ret.log)
                  /\ IsReturnOf(i, i + 1)
                  /\ ret.log[i + 1].result = Overflow("Canonical")
                  /\ CacheAfter(i + 1) = CacheAfter(i - 1)
        /\ OverLimit(ret.stack.recursion_depth) =>
              /\ ret.result = Overflow("Canonical")
              /\ cache = ret.cache_before
        /\ (/\ ~OverLimit(ret.stack.recursion_depth)
            /\ ret.key \in ret.overflowed
            /\ ret.key \notin DOMAIN ret.cache_before) => ComputedAfresh

\* a call within the limit, for a key an earlier call overflowed on, found
\* no entry, computed afresh and selected a candidate
C1_Witness ==
    /\ SelectReturned
    /\ ~OverLimit(ret.stack.recursion_depth)
    /\ ret.key \in ret.overflowed
    /\ ret.key \notin DOMAIN ret.cache_before
    /\ ComputedAfresh
    /\ ret.result.tag = "Selected"

\* the call that starts at event i and returns at event j found an entry
HitReturnsEntry(i, j) ==
    /\ ret.log[j].result = CacheAfter(i)[ret.log[i].key]
    /\ \A m \in i..j : ret.log[m].ev \notin {"no_cache", "no_cache_return", "insert"}
    /\ CacheAfter(j) = CacheAfter(i)

\* the call that starts at event i and returns at event j found no entry
MissWritesOnce(i, j) ==
    /\ Cardinality(OwnEvents(i, j, "insert")) = 1
    /\ Cardinality(OwnEvents(i, j, "no_cache_return")) = 1
    /\ \A w \in OwnEvents(i, j, "insert") :
          /\ \A r \in OwnEvents(i, j, "no_cache_return") :
                r < w /\ ret.log[w].result = ret.log[r].result
          /\ ret.log[w].key = ret.log[i].key
          /\ ret.log[w].result = ret.log[j].result
          /\ CacheAfter(j)[ret.log[i].key] = ret.log[j].result

\* C2: for a call within the recursion limit (the call made and every call
\* nested in it), on a hit the stored result is returned without running
\* candidate_from_obligation_no_cache and without writing the cache; on a
\* miss the cache is written exactly once by the call, for its key, after
\* candidate_from_obligation_no_cache has returned, with the value returned.
C2_HitReturnsMissWritesOnce ==
    SelectReturned =>
        /\ CacheAfter(Len(ret.log)) = cache
        /\ ret.log[Len(ret.log)].result = ret.result
        /\ \A i \in 1..Len(ret.log) :
              (IsCall(i) /\ ~OverLimit(ret.log[i].depth)) =>
                  IF ret.log[i].key \in DOMAIN CacheAfter(i)
                  THEN HitReturnsEntry(i, ReturnOf(i))
                  ELSE MissWritesOnce(i, ReturnOf(i))

\* a miss whose evaluation made a nested call that was a hit, and that
\* stored and returned an error
C2_Witness ==
    /\ SelectReturned
    /\ ~OverLimit(ret.stack.recursion_depth)
    /\ ret.key \notin DOMAIN ret.cache_before
    /\ ret.result.tag \in {"Unimplemented", "Overflow"}
    /\ cache[ret.key] = ret.result
    /\ \E i \in 2..Len(ret.log) :
          IsCall(i) /\ ret.log[i].key \in DOMAIN CacheAfter(i)

\* selection of the obligation of the last call with the cache disabled
Uncached == [cache |-> EmptyCache, caching |-> FALSE, causes |-> ret.causes_before,
             log |-> <<>>]

\* C3 as claimed: every call within the limit returns what
\* candidate_from_obligation_no_cache returns for the obligation with the
\* cache disabled, whatever calls came before and whatever inference
\* variables the obligation carries.
C3_AsClaimed ==
    (SelectReturned /\ ~OverLimit(ret.stack.recursion_depth)) =>
        ret.result =
            candidate_from_obligation_no_cache(bindings, world, Uncached, ret.stack).result

\* an entry is kept with its value by every event of the last call
EntriesKept(n) ==
    \A k \in DOMAIN CacheAfter(n - 1) :
        k \in DOMAIN CacheAfter(n) /\ CacheAfter(n)[k] = CacheAfter(n - 1)[k]

\* C4: once a key has an entry, the entry is never removed and every later
\* write for the key stores the same value, the write of an outer call for
\* a key that a nested call wrote included.
C4_WritesAreIdempotent ==
    /\ \A k \in DOMAIN ret.cache_before :
          k \in DOMAIN cache /\ cache[k] = ret.cache_before[k]
    /\ SelectReturned =>
          /\ CacheAfter(Len(ret.log)) = cache
          /\ \A n \in 1..Len(ret.log) : EntriesKept(n)

\* the last call wrote the key that a call nested in it had written
C4_Witness ==
    /\ SelectReturned
    /\ \E n, m \in 1..Len(ret.log) :
          /\ n < m
          /\ ret.log[n].ev = "insert"
          /\ ret.log[m].ev = "insert"
          /\ ret.log[n].key = ret.log[m].key
          /\ ret.log[n].depth > ret.log[m].depth
          /\ ret.log[m].depth = ret.stack.recursion_depth

(***************************************************************************)
(* Claims about candidate_from_obligation_no_cache (checked under          *)
(* SpecNoCache).                                                           *)
(***************************************************************************)
NoCacheReturned == ret.kind = "no_cache"

\* the answers of the compiler for the obligation of the call
FactsOfCall == facts_of(world, cache_key(bindings, ret.stack))

\* what assemble_candidates gives for the obligation of the call
AssembledForCall == assemble_candidates(bindings, FactsOfCall, ret.stack)

\* the call assembled a candidate set without error and not ambiguous
RawAssembly(set) == set.err = "None" /\ ~set.ambiguous

\* the candidates left by filter_impls
FilteredForCall == filter_impls(FactsOfCall, AssembledForCall.vec, ret.stack)

\* the call ran evaluate_candidate at least once
CallEvaluated == \E k \in 1..Len(ret.log) : ret.log[k].ev = "evaluate_candidate"

\* the evaluation the compiler gives for candidate c of the call
EvaluationOfCall(c) == evaluation_of(FactsOfCall, c).result

\* C5 as claimed: whenever is_knowable fails, candidate_from_obligation_no_cache
\* returns Ambiguous, whatever the diagnostic-only assembly and evaluation
\* return (overflow included).
C5_AsClaimed ==
    (NoCacheReturned /\ FactsOfCall.knowable # "Ok") => ret.result = Ambiguous

\* C6: when the resolved self type is an unresolved type variable,
\* assemble_candidates gives ambiguous = true and an empty list without
\* running any assembler, for either polarity and any trait, and
\* candidate_from_obligation_no_cache on a knowable obligation returns
\* Ambiguous.
C6_UnresolvedSelfTypeIsAmbiguous ==
    is_ty_var(shallow_resolve(bindings, ret.stack.predicate.self_ty)) =>
        /\ AssembledForCall.ambiguous
        /\ AssembledForCall.vec = <<>>
        /\ AssembledForCall.ran = <<>>
        /\ AssembledForCall.err = "None"
        /\ (NoCacheReturned /\ FactsOfCall.knowable = "Ok") =>
              (ret.result = Ambiguous /\ ~CallEvaluated)

\* a negative obligation on a lang-item trait with an unresolved self type,
\* impls and caller bounds present, returned Ambiguous
C6_Witness ==
    /\ NoCacheReturned
    /\ ret.stack.predicate.self_ty = "TyVar2"
    /\ bindings["TyVar2"] = Unresolved
    /\ ret.stack.predicate.polarity = "Negative"
    /\ ret.stack.predicate.trait = "Copy"
    /\ FactsOfCall.knowable = "Ok"
    /\ FactsOfCall.impls # <<>>
    /\ FactsOfCall.caller_bounds # <<>>
    /\ ret.result = Ambiguous

\* C7 as claimed: whenever raw assembly on a knowable obligation yields
\* exactly one candidate, candidate_from_obligation_no_cache never calls
\* evaluate_candidate and returns that candidate passed through
\* filter_reservation_impls.
C7_AsClaimed ==
    (/\ NoCacheReturned
     /\ FactsOfCall.knowable = "Ok"
     /\ RawAssembly(AssembledForCall)
     /\ Len(AssembledForCall.vec) = 1) =>
        /\ ~CallEvaluated
        /\ ret.result = filter_reservation_impls(FactsOfCall, AssembledForCall.vec[1],
                                                 ret.stack)

\* C7 as amended: whenever exactly one candidate of the raw assembly is left
\* by filter_impls, candidate_from_obligation_no_cache never calls
\* evaluate_candidate and returns that candidate passed through
\* filter_reservation_impls; when raw assembly yields exactly one candidate
\* and filter_impls removes it, evaluate_candidate is not called either.
C7_FastPathAfterFilterImpls ==
    (/\ NoCacheReturned
     /\ FactsOfCall.knowable = "Ok"
     /\ RawAssembly(AssembledForCall)) =>
        /\ Len(FilteredForCall) = 1 =>
              /\ ~CallEvaluated
              /\ ret.result = filter_reservation_impls(FactsOfCall, FilteredForCall[1],
                                                       ret.stack)
        /\ Len(AssembledForCall.vec) = 1 => ~CallEvaluated

\* two candidates assembled, one ruled out by filter_impls, the other one
\* selected although its evaluation would fail
C7_Witness ==
    /\ NoCacheReturned
    /\ FactsOfCall.knowable = "Ok"
    /\ RawAssembly(AssembledForCall)
    /\ Len(AssembledForCall.vec) = 2
    /\ Len(FilteredForCall) = 1
    /\ EvaluationOfCall(FilteredForCall[1]) = "EvaluatedToErr"
    /\ ret.result = Selected(FilteredForCall[1])

\* no candidate is left by filter_impls, evaluation and deduplication: the
\* fast path is not taken and every candidate left by filter_impls
\* evaluates to an error (deduplication never empties a list)
NoSurvivor ==
    /\ FactsOfCall.knowable = "Ok"
    /\ RawAssembly(AssembledForCall)
    /\ Len(FilteredForCall) # 1
    /\ \A c \in Range(FilteredForCall) : EvaluationOfCall(c) = "EvaluatedToErr"

\* C8: when no candidate survives winnowing, candidate_from_obligation_no_cache
\* returns Unimplemented if the predicate of the obligation does not
\* reference a type-level error and Ambiguous if it does; an obligation whose
\* predicate references an error never gives Unimplemented.
C8_NoSurvivorVerdict ==
    NoCacheReturned =>
        /\ NoSurvivor =>
              ret.result = IF references_error(ret.stack.predicate)
                           THEN Ambiguous ELSE Unimplemented
        /\ references_error(ret.stack.predicate) => ret.result # Unimplemented

\* two candidates of an erroneous predicate were evaluated, none applies
C8_Witness ==
    /\ NoCacheReturned
    /\ NoSurvivor
    /\ Len(FilteredForCall) = 2
    /\ CallEvaluated
    /\ references_error(ret.stack.predicate)
    /\ ret.result = Ambiguous

\* C15: assemble_candidates never returns Unimplemented: its only error is
\* the overflow error of where_clause_may_apply on a caller bound of the
\* trait, which the selection returns as it is; and
\* candidate_from_obligation_no_cache returns Unimplemented only when the
\* assembly gave a set and winnowing left no candidate of it.
C15_AssemblyNeverUnimplemented ==
    NoCacheReturned =>
        /\ AssembledForCall.err \in {"None"} \cup OverflowErrors
        /\ AssembledForCall.err # "None" =>
              /\ ret.stack.predicate.polarity = "Positive"
              /\ \E k \in 1..Len(FactsOfCall.caller_bounds) :
                     /\ FactsOfCall.caller_bounds[k].trait = ret.stack.predicate.trait
                     /\ FactsOfCall.caller_bounds[k].wc = AssembledForCall.err
              /\ FactsOfCall.knowable = "Ok" =>
                     ret.result = selection_error(AssembledForCall.err)
        /\ ret.result = Unimplemented => NoSurvivor

\* where_clause_may_apply overflowed on the only source of candidates, and
\* the selection is that error, not Unimplemented
C15_Witness ==
    /\ NoCacheReturned
    /\ FactsOfCall.knowable = "Ok"
    /\ FactsOfCall.impls = <<>>
    /\ AssembledForCall.err = "ErrorReporting"
    /\ ret.result = ErrorReporting

\* the candidates the call evaluated, in the order of the evaluations
RECURSIVE EvaluatedIn(_)
EvaluatedIn(log) ==
    IF log = <<>> THEN <<>>
    ELSE (IF Head(log).ev = "evaluate_candidate"
          THEN <<Head(log).result.candidate>> ELSE <<>>) \o EvaluatedIn(Tail(log))

\* the call winnows: the obligation is knowable, the assembly gave a set that
\* is not ambiguous, and filter_impls did not leave exactly one candidate
Winnows ==
    /\ NoCacheReturned
    /\ FactsOfCall.knowable = "Ok"
    /\ RawAssembly(AssembledForCall)
    /\ Len(FilteredForCall) # 1

\* the places in the filtered list of the candidates whose evaluation is an error
FailingPlaces ==
    {k \in 1..Len(FilteredForCall) : EvaluationOfCall(FilteredForCall[k]) \in OverflowErrors}

FirstFailing == CHOOSE k \in FailingPlaces : \A j \in FailingPlaces : k <= j

\* what the winnowing of lines 160-172 gives for the filtered list of the call
WinnowedForCall ==
    winnow(bindings, world,
           [cache |-> ret.cache_before, caching |-> TRUE, causes |-> ret.causes_before,
            log |-> <<>>],
           ret.stack, FilteredForCall)

\* the candidates of the filtered list whose evaluation may apply, evaluated
MayApplyInOrder ==
    LET applies(c) == may_apply(EvaluationOfCall(c))
        kept == SelectSeq(FilteredForCall, applies)
    IN  [k \in 1..Len(kept) |->
            [candidate |-> kept[k], evaluation |-> EvaluationOfCall(kept[k])]]

\* C18: when filter_impls does not leave exactly one candidate, the
\* candidates are evaluated in list order.  If no evaluation is an error,
\* all are evaluated and those kept are exactly the ones whose evaluation
\* may apply, in their original order.  If one is an error, the selection
\* returns the first such error (Overflow for Canonical and Error,
\* ErrorReporting for ErrorReporting) and no candidate after it is
\* evaluated, whatever the other candidates evaluate to.
C18_WinnowInOrderFirstErrorEnds ==
    Winnows =>
        IF FailingPlaces = {}
        THEN /\ EvaluatedIn(ret.log) = FilteredForCall
             /\ WinnowedForCall.err = "None"
             /\ WinnowedForCall.vec = MayApplyInOrder
        ELSE /\ EvaluatedIn(ret.log) = SubSeq(FilteredForCall, 1, FirstFailing)
             /\ WinnowedForCall.err = EvaluationOfCall(FilteredForCall[FirstFailing])
             /\ ret.result =
                  IF EvaluationOfCall(FilteredForCall[FirstFailing]) = "ErrorReporting"
                  THEN ErrorReporting
                  ELSE Overflow(EvaluationOfCall(FilteredForCall[FirstFailing]))

\* the first of two candidates overflows and the second would apply: the
\* second is not evaluated and the selection is the overflow
C18_Witness ==
    /\ Winnows
    /\ Len(FilteredForCall) = 2
    /\ EvaluationOfCall(FilteredForCall[1]) = "Error"
    /\ EvaluationOfCall(FilteredForCall[2]) = "EvaluatedToOk"
    /\ Len(EvaluatedIn(ret.log)) = 1
    /\ ret.result = Overflow("Error")

\* the side channel was changed by the call
CausesChanged == causes # ret.causes_before

\* no candidate of the assembled set has an evaluation that may apply, and
\* no evaluation ends the loop of lines 86-91 with an error
NoCandidateApplies ==
    \A k \in 1..Len(AssembledForCall.vec) :
        /\ ~may_apply(EvaluationOfCall(AssembledForCall.vec[k]))
        /\ EvaluationOfCall(AssembledForCall.vec[k]) \notin OverflowErrors

Evaluated(d) == {d.vec[k].candidate : k \in 1..Len(d.vec)}

Remaining(d) == {d.candidates[k].candidate : k \in 1..Len(d.candidates)}

\* "some other candidate B of the evaluated set should be preferred to A"
DroppedByRule(d, a) == \E b \in Evaluated(d) \ {a} : <<a, b>> \in d.pref

SurvivorsOfRule(d) == {a \in Evaluated(d) : ~DroppedByRule(d, a)}

DedupFinished(d) == d.pc \in {"done", "ambig"} /\ Len(d.vec) > 1

\* the verdict of the step is the one the rule of the claim gives
VerdictFollowsRule(d) ==
    /\ (d.pc = "ambig") <=> (Cardinality(SurvivorsOfRule(d)) > 1)
    /\ (d.pc = "done") =>
          /\ Len(d.candidates) = 1
          /\ Remaining(d) = SurvivorsOfRule(d)

\* the preference between distinct candidates is asymmetric and transitive
StrictOrder(d) ==
    /\ \A a, b \in Evaluated(d) :
          (a # b /\ <<a, b>> \in d.pref) => <<b, a>> \notin d.pref
    /\ \A a, b, c \in Evaluated(d) :
          (a # b /\ b # c /\ a # c /\ <<a, b>> \in d.pref /\ <<b, c>> \in d.pref)
              => <<a, c>> \in d.pref

\* C9 as claimed: for every preference relation, deduplication drops a
\* candidate exactly when some other candidate of the evaluated set is
\* preferred to it; the verdict is Ambiguous when more than one candidate
\* survives that rule and the single survivor otherwise.
C9_AsClaimed == DedupFinished(dedup) => VerdictFollowsRule(dedup)

\* C9 as amended: the same statement for every preference relation that is
\* asymmetric and transitive between distinct candidates.
C9_DedupFollowsRuleOnStrictOrders ==
    (DedupFinished(dedup) /\ StrictOrder(dedup)) => VerdictFollowsRule(dedup)

\* three candidates, a non-empty strict order, two of them dropped
C9_Witness ==
    /\ dedup.pc = "done"
    /\ Len(dedup.vec) = MaxCands
    /\ StrictOrder(dedup)
    /\ Len(dedup.candidates) = 1
    /\ \E a, b \in Evaluated(dedup) : a # b /\ <<a, b>> \in dedup.pref

\* every two distinct candidates are droppable in favour of one another
MutuallyDroppable(d) ==
    \A a, b \in Evaluated(d) : a # b => <<a, b>> \in d.pref

\* C10 as claimed: when the surviving candidate and another candidate are
\* droppable in favour of one another, the survivor is the one of lower
\* insertion index.
C10_AsClaimed ==
    (dedup.pc = "done" /\ Len(dedup.vec) > 1 /\ Len(dedup.candidates) = 1) =>
        \A a \in Evaluated(dedup) \ Remaining(dedup) :
            \A s \in Remaining(dedup) :
                (<<a, s>> \in dedup.pref /\ <<s, a>> \in dedup.pref) => s < a

\* C10 as amended: when all (two or more) evaluated candidates are droppable
\* in favour of one another, the loop ends with exactly one candidate, the
\* one of insertion index 1 (the second of the list), never index 0.
C10_SecondCandidateSurvivesMutualDrops ==
    (DedupFinished(dedup) /\ MutuallyDroppable(dedup)) =>
        /\ dedup.pc = "done"
        /\ Len(dedup.candidates) = 1
        /\ dedup.candidates[1] = dedup.vec[2]

C10_Witness ==
    /\ dedup.pc = "done"
    /\ Len(dedup.vec) = MaxCands
    /\ MutuallyDroppable(dedup)
    /\ Remaining(dedup) = {1}

\* the candidate the iteration at index i looks at
Examined(d) == d.candidates[d.i + 1].candidate

\* the list of the loop with candidate k standing for the impl of that index
AsImplCandidates(d) ==
    [d EXCEPT !.candidates =
        [k \in 1..Len(d.candidates) |->
            [d.candidates[k] EXCEPT !.candidate = ImplCandidate(@)]]]

\* what lines 208-230 return after the loop, with the impls of `reserved`
\* being reservation impls
VerdictAfter(d, reserved) ==
    select_deduplicated([NoFacts EXCEPT !.reservation_impls = reserved], Enter,
                        Obligation("Env", OtherOf("Int"), 0), AsImplCandidates(d)).result

\* the preferences form a cycle through all three candidates
CyclicPreference(d) ==
    /\ Len(d.vec) = 3
    /\ {<<0, 1>>, <<1, 2>>, <<2, 0>>} \subseteq d.pref

\* C23, the loop: for every preference relation (mutual and cyclic ones
\* included) a list that had a candidate when the loop was entered keeps at
\* least one, and what lines 208-230 return after the loop is one candidate
\* or Ambiguous (a reservation impl), never Unimplemented.
C23_ListKeepsACandidate ==
    Len(dedup.vec) >= 1 =>
        /\ Len(dedup.candidates) >= 1
        /\ dedup.pc \in {"done", "ambig"} =>
               \A reserved \in SUBSET Evaluated(dedup) :
                   /\ VerdictAfter(dedup, reserved).tag \in {"Selected", "Ambiguous"}
                   /\ VerdictAfter(dedup, reserved).tag = "Selected" =>
                          /\ dedup.pc = "done"
                          /\ VerdictAfter(dedup, reserved).candidate.idx \in Remaining(dedup)

\* C23, the removal: an iteration removes the candidate it examines only
\* while another candidate, one it should be dropped in favour of, is in the
\* list, and that candidate is still there after the removal.
C23_RemovedOnlyBesideAnother ==
    DedupDrop =>
        /\ Len(dedup.candidates) >= 2
        /\ Remaining(dedup') = Remaining(dedup) \ {Examined(dedup)}
        /\ \E b \in Remaining(dedup') : <<Examined(dedup), b>> \in dedup.pref

\* C23: deduplication never empties the candidate list: a candidate is
\* removed only while another candidate is still in the list, so when at
\* least one candidate survives evaluation the result is one candidate
\* (through filter_reservation_impls) or Ambiguous, never Unimplemented, for
\* every preference relation.
C23_DedupNeverEmptiesTheList ==
    [](C23_ListKeepsACandidate) /\ [][C23_RemovedOnlyBesideAnother]_vars

\* a cycle of three candidates, two of them removed, the last one selected
C23_Witness ==
    /\ dedup.pc = "done"
    /\ CyclicPreference(dedup)
    /\ Len(dedup.candidates) = 1
    /\ VerdictAfter(dedup, {}) = Selected(ImplCandidate(dedup.candidates[1].candidate))

\* the loop was left: by its condition, by `return Ok(None)`, or never entered
DedupLeft == dedup.pc \in {"done", "ambig"}

\* C24, the bound: the loop has run at most as many iterations as the list
\* had candidates, it runs only while fewer than two candidates are
\* retained, and it has returned Ambiguous exactly when a second one was.
C24_AtMostOneIterationPerCandidate ==
    /\ dedup.iters <= Len(dedup.vec)
    /\ dedup.iters + (Len(dedup.candidates) - dedup.i) <= Len(dedup.vec)
    /\ dedup.pc = "loop" => dedup.i <= 1
    /\ dedup.pc = "ambig" <=> dedup.i = 2

\* C24, the iteration: every iteration either removes the one candidate at
\* index i (swap_remove) and leaves i, or leaves the list and advances i,
\* and the iteration that retains a second candidate returns Ambiguous.
C24_IterationRemovesOrAdvances ==
    /\ DedupDrop =>
          /\ Len(dedup'.candidates) = Len(dedup.candidates) - 1
          /\ dedup'.i = dedup.i
          /\ dedup'.iters = dedup.iters + 1
          /\ dedup'.pc = "loop"
    /\ DedupRetain =>
          /\ dedup'.candidates = dedup.candidates
          /\ dedup'.i = dedup.i + 1
          /\ dedup'.iters = dedup.iters + 1
          /\ dedup'.pc = IF dedup.i = 1 THEN "ambig" ELSE "loop"
    /\ DedupExit => dedup'.iters = dedup.iters /\ dedup'.pc = "done"

\* C24: the deduplication loop always terminates, for every preference
\* relation: every iteration removes one candidate or advances the index i,
\* the loop returns Ambiguous as soon as a second candidate is retained, and
\* for a list of n candidates it runs at most n iterations.
C24_DedupLoopTerminates ==
    /\ <>DedupLeft
    /\ [](DedupLeft => []DedupLeft)
    /\ []C24_AtMostOneIterationPerCandidate
    /\ [][C24_IterationRemovesOrAdvances]_vars

\* the loop on a cycle of MaxCands candidates, left after MaxCands iterations
C24_Witness ==
    /\ dedup.pc = "done"
    /\ Len(dedup.vec) = MaxCands
    /\ dedup.iters = MaxCands
    /\ \A a \in Evaluated(dedup) : <<a, (a + 1) % MaxCands>> \in dedup.pref

(***************************************************************************)
(* Claims on SpecAssemble.                                                 *)
(***************************************************************************)
\* assemble_candidates has returned Ok(set)
AssembleReturned == ret.kind = "assembled" /\ ret.set.err = "None"

\* the predicate of the obligation as line 243 resolves it
ResolvedPredicate == resolve_vars_if_possible(bindings, ret.stack.predicate)

Tags(set) == {set.vec[k].tag : k \in 1..Len(set.vec)}

\* C11 as claimed: every set returned by assemble_candidates with
\* ambiguous = true has an empty item list.
C11_AsClaimed ==
    (AssembleReturned /\ ret.set.ambiguous) => ret.set.vec = <<>>

\* C11 as amended: a set returned by assemble_candidates with ambiguous = true
\* holds no candidate of a builtin rule: its item list is empty when the self
\* type is an unresolved variable, and otherwise holds only ImplCandidate,
\* ProjectionCandidate and ParamCandidate items (those the impl, projection
\* and caller-bound assemblers pushed before or after the flag was set).
C11_AmbiguousSetHoldsNoBuiltinCandidate ==
    (AssembleReturned /\ ret.set.ambiguous) =>
        /\ is_ty_var(ResolvedPredicate.self_ty) => ret.set.vec = <<>>
        /\ Tags(ret.set) \subseteq {"ImplCandidate", "ProjectionCandidate", "ParamCandidate"}

C11_Witness ==
    /\ AssembleReturned
    /\ ret.set.ambiguous
    /\ Tags(ret.set) = {"ImplCandidate", "ParamCandidate"}
    /\ ret.stack.predicate.trait = "Transmute"

\* C12: for an obligation of Negative polarity whose self type is not an
\* unresolved variable, assemble_candidates runs only the trait-alias and impl
\* assemblers: it returns a set of TraitAliasCandidate and ImplCandidate items
\* only, not ambiguous, and no builtin, projection, caller-bound or auto-impl
\* assembler has run.
C12_NegativeRunsAliasAndImplsOnly ==
    ( /\ ret.kind = "assembled"
      /\ ret.stack.predicate.polarity = "Negative"
      /\ ~is_ty_var(ResolvedPredicate.self_ty) ) =>
        /\ ret.set.err = "None"
        /\ ~ret.set.ambiguous
        /\ Tags(ret.set) \subseteq {"TraitAliasCandidate", "ImplCandidate"}
        /\ Len(ret.set.ran) >= 2
        /\ ret.set.ran[1] = "trait_alias"
        /\ ret.set.ran[2] = "impls"
        /\ \A k \in 3..Len(ret.set.ran) :
               ret.set.ran[k] \in {"fast_reject_trait_refs", "match_impl"}

C12_Witness ==
    /\ ret.kind = "assembled"
    /\ ret.stack.predicate.polarity = "Negative"
    /\ ret.stack.predicate.self_ty = "TyVar1"
    /\ bindings["TyVar1"] = "Int"
    /\ ret.set.vec = <<TraitAliasCandidate, ImplCandidate(3)>>
    /\ facts_of(world, cache_key(bindings, ret.stack)).caller_bounds # <<>>

\* a positive obligation on DiscriminantKind or Pointee with a resolved self
\* type, for which assemble_candidates has returned
UnconditionalCase ==
    /\ ret.kind = "assembled"
    /\ ret.stack.predicate.polarity = "Positive"
    /\ ret.stack.predicate.trait \in {"DiscriminantKind", "Pointee"}
    /\ ~is_ty_var(ResolvedPredicate.self_ty)

Unconditional ==
    IF ret.stack.predicate.trait = "Pointee" THEN PointeeCandidate
    ELSE DiscriminantKindCandidate

\* C13 as claimed: for a positive obligation on DiscriminantKind or Pointee
\* with a resolved self type, the raw candidate set is exactly the one
\* unconditional candidate.
C13_AsClaimed ==
    UnconditionalCase =>
        /\ ret.set.err = "None"
        /\ ret.set.vec = <<Unconditional>>

\* C13 as amended: for such an obligation assemble_candidates pushes the one
\* unconditional candidate first and goes on to the projection and
\* caller-bound assemblers: the set it returns is not ambiguous and is that
\* candidate followed by ProjectionCandidate and ParamCandidate items only (by
\* nothing when the self type is no projection or opaque type and no caller
\* bound is on the trait); the auto impls are not consulted; and it returns no
\* set but the error when where_clause_may_apply fails on a caller bound.
C13_UnconditionalCandidateComesFirst ==
    UnconditionalCase =>
        IF ret.set.err # "None"
        THEN \E k \in 1..Len(FactsOfCall.caller_bounds) :
                 /\ FactsOfCall.caller_bounds[k].trait = ret.stack.predicate.trait
                 /\ FactsOfCall.caller_bounds[k].wc = ret.set.err
        ELSE /\ ~ret.set.ambiguous
             /\ ret.set.vec # <<>>
             /\ ret.set.vec[1] = Unconditional
             /\ \A k \in 2..Len(ret.set.vec) :
                    ret.set.vec[k].tag \in {"ProjectionCandidate", "ParamCandidate"}
             /\ "auto_impls" \notin Range(ret.set.ran)
             /\ ( /\ ResolvedPredicate.self_ty \notin {"Projection", "Opaque"}
                  /\ \A k \in 1..Len(FactsOfCall.caller_bounds) :
                         FactsOfCall.caller_bounds[k].trait # ret.stack.predicate.trait )
                => ret.set.vec = <<Unconditional>>

C13_Witness ==
    /\ UnconditionalCase
    /\ ret.set.err = "None"
    /\ Len(ret.set.vec) = 4
    /\ ret.set.vec[1] = PointeeCandidate
    /\ {ret.set.vec[k].tag : k \in 2..4} = {"ProjectionCandidate", "ParamCandidate"}

\* C14: assemble_candidates runs assemble_candidates_from_auto_impls only
\* when every other assembler left the item list empty: in every set it
\* returns an AutoImplCandidate is the only item, and when the auto-impl
\* assembler has run nothing but what it pushed is in the set.
C14_AutoImplIsTheOnlyItem ==
    AssembleReturned =>
        /\ AutoImplCandidate \in Range(ret.set.vec) => ret.set.vec = <<AutoImplCandidate>>
        /\ "auto_impls" \in Range(ret.set.ran) =>
               /\ Len(ret.set.vec) <= 1
               /\ Tags(ret.set) \subseteq {"AutoImplCandidate", "BuiltinCandidate"}
               /\ ret.set.ran[Len(ret.set.ran)] = "auto_impls"

\* the impls and the caller bounds were tried and gave nothing, and the auto
\* impl is the set
C14_Witness ==
    /\ AssembleReturned
    /\ ret.set.vec = <<AutoImplCandidate>>
    /\ "match_impl" \in Range(ret.set.ran)
    /\ FactsOfCall.caller_bounds # <<>>

\* C16 as claimed: whenever the trait of the obligation is a trait alias,
\* assemble_candidates returns a set that contains TraitAliasCandidate, for
\* every self type and both polarities.
C16_AsClaimed ==
    (ret.kind = "assembled" /\ is_trait_alias(ret.stack.predicate.trait)) =>
        /\ ret.set.err = "None"
        /\ TraitAliasCandidate \in Range(ret.set.vec)

\* C16 as amended: whenever the trait of the obligation is a trait alias and
\* the resolved self type is not an unresolved type variable, every set that
\* assemble_candidates returns has TraitAliasCandidate as its first item, for
\* both polarities; for an unresolved self type the set is empty and
\* ambiguous, and no set is returned when where_clause_may_apply fails on a
\* caller bound (positive polarity only).
C16_AliasCandidateForResolvedSelfTypes ==
    (ret.kind = "assembled" /\ is_trait_alias(ret.stack.predicate.trait)) =>
        IF is_ty_var(ResolvedPredicate.self_ty)
        THEN ret.set.err = "None" /\ ret.set.vec = <<>> /\ ret.set.ambiguous
        ELSE IF ret.set.err = "None"
        THEN ret.set.vec # <<>> /\ ret.set.vec[1] = TraitAliasCandidate
        ELSE /\ ret.stack.predicate.polarity = "Positive"
             /\ \E k \in 1..Len(FactsOfCall.caller_bounds) :
                    /\ FactsOfCall.caller_bounds[k].trait = ret.stack.predicate.trait
                    /\ FactsOfCall.caller_bounds[k].wc = ret.set.err

C16_Witness ==
    /\ AssembleReturned
    /\ is_trait_alias(ret.stack.predicate.trait)
    /\ ret.stack.predicate.polarity = "Negative"
    /\ ret.stack.predicate.self_ty = "Dynamic"
    /\ ret.set.vec = <<TraitAliasCandidate>>

\* C17: speculative work is rollback-scoped: the inference state after
\* assemble_candidates returns equals the inference state before the call,
\* whether each tested impl, projection bound, object supertrait or where
\* clause was accepted as a candidate or rejected.
C17_InferenceStateRestored == [][Assemble => bindings' = bindings]_vars

\* the type argument of the obligation is a variable that every match binds:
\* one impl was rejected and one accepted, a where clause was accepted, and
\* the variable is unresolved after the call
C17_Witness ==
    /\ AssembleReturned
    /\ ret.stack.predicate.arg = "TyVar2"
    /\ unify_arg(bindings, ret.stack.predicate) # bindings
    /\ ret.set.vec = <<ImplCandidate(3), ParamCandidate(0)>>
    /\ Len(FactsOfCall.impls) = 3

\* the obligation as assemble_candidates hands it to the assemblers
ResolvedObligation == [ret.stack EXCEPT !.predicate = ResolvedPredicate]

BuiltinRuleTraits ==
    {"Copy", "Clone", "Sized", "Unsize", "Destruct", "Transmute", "Tuple", "PointerSized"}

\* assemble_candidates has returned and, on its way, invoked the builtin-rule
\* assembler of the trait
BuiltinRuleInvoked ==
    /\ ret.kind = "assembled"
    /\ ret.stack.predicate.polarity = "Positive"
    /\ ret.stack.predicate.trait \in BuiltinRuleTraits
    /\ ~is_ty_var(ResolvedPredicate.self_ty)

\* the set the builtin-rule assembler of the trait is invoked on (lines 272-322)
BuiltinBefore ==
    IF ret.stack.predicate.trait \in {"Copy", "Transmute"}
    THEN assemble_candidates_from_impls(FactsOfCall, ResolvedObligation,
             assemble_candidates_for_trait_alias(ResolvedObligation,
                 [EmptyCandidateSet EXCEPT !.infcx = bindings]))
    ELSE assemble_candidates_for_trait_alias(ResolvedObligation,
             [EmptyCandidateSet EXCEPT !.infcx = bindings])

\* the set as the invocation leaves it
BuiltinAfter ==
    LET def_id == ret.stack.predicate.trait
    IN  CASE def_id \in {"Copy", "Clone"} ->
               assemble_builtin_bound_candidates(
                   copy_clone_conditions(FactsOfCall, ResolvedObligation), BuiltinBefore)
          [] def_id = "Sized" ->
               assemble_builtin_bound_candidates(
                   sized_conditions(FactsOfCall, ResolvedObligation), BuiltinBefore)
          [] def_id = "Unsize" ->
               assemble_candidates_for_unsizing(FactsOfCall, ResolvedObligation, BuiltinBefore)
          [] def_id = "Destruct" ->
               assemble_const_destruct_candidates(bindings, FactsOfCall, ResolvedObligation,
                                                  BuiltinBefore)
          [] def_id = "Transmute" ->
               assemble_candidates_for_transmutability(ResolvedObligation, BuiltinBefore)
          [] def_id = "Tuple" ->
               assemble_candidate_for_tuple(bindings, ResolvedObligation, BuiltinBefore)
          [] def_id = "PointerSized" ->
               assemble_candidate_for_ptr_sized(FactsOfCall, ResolvedObligation, BuiltinBefore)

\* what the invocation pushed
BuiltinPushed == SubSeq(BuiltinAfter.vec, Len(BuiltinBefore.vec) + 1, Len(BuiltinAfter.vec))

\* the invocation only appends, and it is the one assemble_candidates made:
\* the returned set starts with what the invocation left
BuiltinInvocationOfCall ==
    /\ BuiltinAfter.vec = BuiltinBefore.vec \o BuiltinPushed
    /\ BuiltinBefore.ambiguous = FALSE
    /\ ret.set.err = "None" =>
          /\ SubSeq(ret.set.vec, 1, Len(BuiltinAfter.vec)) = BuiltinAfter.vec
          /\ SubSeq(ret.set.ran, 1, Len(BuiltinAfter.ran)) = BuiltinAfter.ran
          /\ ret.set.ambiguous = BuiltinAfter.ambiguous

\* C19 as claimed: each builtin-rule assembler invocation pushes exactly one
\* candidate and leaves the ambiguous flag unchanged, or pushes nothing and
\* leaves the flag unchanged, or sets ambiguous = true and pushes nothing.
C19_AsClaimed ==
    BuiltinRuleInvoked =>
        /\ BuiltinInvocationOfCall
        /\ \/ Len(BuiltinPushed) = 1 /\ ~BuiltinAfter.ambiguous
           \/ Len(BuiltinPushed) = 0 /\ ~BuiltinAfter.ambiguous
           \/ Len(BuiltinPushed) = 0 /\ BuiltinAfter.ambiguous

\* C19 as amended: each builtin-rule assembler invocation has exactly one of
\* these outcomes: it pushes candidates and leaves the ambiguous flag
\* unchanged -- exactly one candidate, except that
\* assemble_candidates_for_unsizing on a trait-object upcast pushes one
\* TraitUpcastingUnsizeCandidate for every supertrait of the source principal
\* whose trait is the target principal, which may be several --, or it pushes
\* nothing and leaves the flag unchanged, or it sets ambiguous = true and
\* pushes nothing.
C19_BuiltinRuleOutcomes ==
    BuiltinRuleInvoked =>
        /\ BuiltinInvocationOfCall
        /\ \/ Len(BuiltinPushed) = 1 /\ ~BuiltinAfter.ambiguous
           \/ Len(BuiltinPushed) = 0 /\ ~BuiltinAfter.ambiguous
           \/ Len(BuiltinPushed) = 0 /\ BuiltinAfter.ambiguous
           \/ /\ Len(BuiltinPushed) > 1
              /\ ~BuiltinAfter.ambiguous
              /\ ret.stack.predicate.trait = "Unsize"
              /\ is_dynamic(ResolvedPredicate.self_ty)
              /\ ResolvedPredicate.arg = ResolvedPredicate.self_ty
              /\ \A k \in 1..Len(BuiltinPushed) :
                     /\ BuiltinPushed[k].tag = "TraitUpcastingUnsizeCandidate"
                     /\ FactsOfCall.supertraits[BuiltinPushed[k].idx + 1].trait
                            = FactsOfCall.target_principal
              /\ Len(BuiltinPushed) =
                     Cardinality({j \in 1..Len(FactsOfCall.supertraits) :
                         FactsOfCall.supertraits[j].trait = FactsOfCall.target_principal})

\* a trait-object upcast to a supertrait that occurs twice among the
\* supertraits of the source principal
C19_Witness ==
    /\ BuiltinRuleInvoked
    /\ ret.set.err = "None"
    /\ BuiltinPushed = <<TraitUpcastingUnsizeCandidate(1), TraitUpcastingUnsizeCandidate(2)>>
    /\ Len(ret.set.vec) = 3

\* an Unsize obligation whose source and target are trait objects of the
\* same dyn kind, for which assemble_candidates_for_unsizing was invoked
DynToDyn ==
    /\ BuiltinRuleInvoked
    /\ ret.stack.predicate.trait = "Unsize"
    /\ is_dynamic(ResolvedPredicate.self_ty)
    /\ ResolvedPredicate.arg = ResolvedPredicate.self_ty
    /\ ~FactsOfCall.self_has_bound_vars

\* the indices (from 0) of the supertraits of the source principal whose
\* trait is the target principal
UpcastIndices ==
    {j - 1 : j \in {k \in 1..Len(FactsOfCall.supertraits) :
                      FactsOfCall.supertraits[k].trait = FactsOfCall.target_principal}}

\* the invocation pushed one TraitUpcastingUnsizeCandidate(idx) for each of
\* these indices, in increasing order, and nothing else
PushedUpcasts ==
    /\ \A k \in 1..Len(BuiltinPushed) :
           BuiltinPushed[k].tag = "TraitUpcastingUnsizeCandidate"
    /\ {BuiltinPushed[k].idx : k \in 1..Len(BuiltinPushed)} = UpcastIndices
    /\ \A j, k \in 1..Len(BuiltinPushed) :
           j < k => BuiltinPushed[j].idx < BuiltinPushed[k].idx

\* C20 as claimed: for an Unsize obligation between trait objects of the same
\* dyn kind the assembler pushes nothing when an auto trait of the target is
\* not among those of the source; otherwise one BuiltinUnsizeCandidate when
\* the principals are equal (or both absent), one
\* TraitUpcastingUnsizeCandidate(idx) for each supertrait index of the target
\* principal when both principals exist and differ, and nothing otherwise.
C20_AsClaimed ==
    DynToDyn =>
        /\ ~BuiltinAfter.ambiguous
        /\ IF ~(FactsOfCall.target_auto_traits \subseteq FactsOfCall.auto_traits)
           THEN BuiltinPushed = <<>>
           ELSE IF FactsOfCall.principal = FactsOfCall.target_principal
           THEN BuiltinPushed = <<BuiltinUnsizeCandidate>>
           ELSE IF FactsOfCall.principal # "None" /\ FactsOfCall.target_principal # "None"
           THEN PushedUpcasts
           ELSE BuiltinPushed = <<>>

\* C20 as amended: as claimed, except that when both principals exist and
\* differ and need_migrate_deref_output_trait_object finds that the source
\* implements Deref with a trait object of the target principal as output,
\* the assembler pushes nothing (the deref_into_dyn_supertrait lint is
\* emitted instead of the upcasting candidates).
C20_DynToDynUnsizing ==
    DynToDyn =>
        /\ ~BuiltinAfter.ambiguous
        /\ IF ~(FactsOfCall.target_auto_traits \subseteq FactsOfCall.auto_traits)
           THEN BuiltinPushed = <<>>
           ELSE IF FactsOfCall.principal = FactsOfCall.target_principal
           THEN BuiltinPushed = <<BuiltinUnsizeCandidate>>
           ELSE IF FactsOfCall.principal # "None" /\ FactsOfCall.target_principal # "None"
           THEN IF FactsOfCall.deref_output = FactsOfCall.target_principal
                THEN BuiltinPushed = <<>>
                ELSE PushedUpcasts
           ELSE BuiltinPushed = <<>>

\* the target drops no auto trait the source lacks and names a supertrait of
\* the source principal, which the source does not deref to
C20_Witness ==
    /\ DynToDyn
    /\ FactsOfCall.target_auto_traits = {"Send"}
    /\ FactsOfCall.deref_output = "None"
    /\ BuiltinPushed = <<TraitUpcastingUnsizeCandidate(1)>>
    /\ ret.set.vec = BuiltinPushed

\* C21: when the predicate of the obligation references a type-level error,
\* assemble_candidates_from_impls adds no ImplCandidate and consults no impl
\* (neither the fast reject nor match_impl runs), while the other assemblers
\* still run: the trait-alias assembler always, and for a positive obligation
\* the projection and caller-bound assemblers too.
C21_ErroneousPredicateSkipsImpls ==
    ( /\ ret.kind = "assembled"
      /\ references_error(ResolvedPredicate)
      /\ ~is_ty_var(ResolvedPredicate.self_ty) ) =>
        /\ "ImplCandidate" \notin Tags(ret.set)
        /\ "fast_reject_trait_refs" \notin Range(ret.set.ran)
        /\ "match_impl" \notin Range(ret.set.ran)
        /\ ret.set.ran[1] = "trait_alias"
        /\ ret.stack.predicate.polarity = "Positive" =>
               /\ "projected_tys" \in Range(ret.set.ran)
               /\ "caller_bounds" \in Range(ret.set.ran)

\* the self type is a variable bound to an error type, the trait has impls
\* that would unify, the impl assembler was invoked and another assembler
\* added a candidate
C21_Witness ==
    /\ AssembleReturned
    /\ ret.stack.predicate.self_ty = "TyVar1"
    /\ ResolvedPredicate.self_ty = "Error"
    /\ Len(FactsOfCall.impls) = 3
    /\ "impls" \in Range(ret.set.ran)
    /\ ret.set.vec = <<ParamCandidate(0)>>

====
